---- MODULE Spec2Model ----
(***************************************************************************)
(* A model of axon-cli: the link / unlink engine (cmd/link.go,             *)
(* cmd/update.go runUnlink), the importer (internal/importer), the sync    *)
(* pipeline (cmd sync), the self-update engine (cmd/update.go,             *)
(* cmd/selfupdate_swap.go), the semantic index and search (internal/search,*)
(* cmd search), the embeddings client (internal/embeddings) and the        *)
(* bootstrap (cmd init).  Each subsystem has its own specification over    *)
(* the shared variables; the variables of the other subsystems stay at     *)
(* their idle values.                                                      *)
(***************************************************************************)
EXTENDS Integers, Sequences, FiniteSets, TLC

VARIABLES
  \* ---- link / unlink engine -------------------------------------------
  parentExists,  \* [Targets -> BOOLEAN]: filepath.Dir(dest) exists
  dest,          \* [Targets -> entry at the expanded destination path]
  hubDirs,       \* sources for which <repo>/<source> exists
  backups,       \* directory entries of <axon>/backups
  now,           \* wall clock, in seconds of the current minute
  canSymlink,    \* whether os.Symlink succeeds on this platform/account
  result,        \* outcome of the latest link / unlink of one target
  prev,          \* outcome of the operation before that
  \* ---- importer ----------------------------------------------------------
  hub,           \* [HubNames -> content, or Absent]: the files under dstDir
  imp,           \* the Result of the latest ImportDir call, and its toolName
  again,         \* the import being repeated: its inputs, the hub before it, its first result
  \* ---- sync ---------------------------------------------------------------
  syncCfg,       \* cfg.SyncMode and cfg.Excludes of the running sync
  repo,          \* the hub repository: exclude file, nested .git dirs, remote
  syncPc,        \* the step the running sync is at
  syncLog,       \* the commands the running sync has run, with their outcome
  syncErr,       \* whether runSync returned an error
  \* ---- self-update --------------------------------------------------------
  goos,          \* runtime.GOOS
  dirWritable,   \* whether entries of the binary's directory can be renamed
  sameDevice,    \* whether the temp area is on the binary's filesystem
  lockHolders,   \* the processes holding the flock on update.lock
  disk,          \* [UpdatePaths -> what the path holds, or Nothing]
  pc,            \* [Procs -> the step the process is at]
  pre,           \* [Procs -> the binary at currentPath when the swap began]
  ret,           \* [Procs -> what the swap returned: "", "nil" or "error"]
  sums,          \* [Updaters -> the manifest lines fetched and not yet parsed]
  verified,      \* [Updaters -> "none", "verified" or "unverified"]
  unsafeSeen,    \* [Procs -> the archive it just read had an entry whose
                 \*           sanitized name is empty]
  \* ---- semantic index -----------------------------------------------------
  userDir,       \* the files of <axon>/search
  bakDir,        \* the files of <axon>/search.bak
  tmpIdx,        \* the files of the builder's temp index directory
  buildPc,       \* the step `axon search --index` is at
  builtIdx,      \* what BuildUserIndex wrote in this run
  initialIdx,    \* what <axon>/search held before the rebuild
  rdPc,          \* the step a reader's Load is at
  rdM,           \* the manifest the reader has read
  rdS,           \* the skill entries the reader has read
  rdOut,         \* what the reader's Load returned
  \* ---- commands ------------------------------------------------------------
  qry,           \* the latest `axon search <query>`: its inputs and what it did
  bld,           \* the latest `axon search --index`: its inputs, the documents embedded
  upd,           \* [Updaters -> what a run with --check or --dry-run printed]
  lnk,           \* the running `axon link all`: its targets, results and exit
  imt,           \* the latest ImportDir over a source tree: inputs, hub, Result, error
  emb,           \* an openAIProvider: its fields and what its Embed calls returned
  ini,           \* the latest `axon init`: the home before it, the home after it, its error
  san            \* the latest sanitizeArchivePath call: GOOS, the name, what it returned

linkVars == <<parentExists, dest, hubDirs, backups, now, canSymlink, result, prev>>

importVars == <<hub, imp, again>>

syncVars == <<syncCfg, repo, syncPc, syncLog, syncErr>>

gateVars == <<sums, verified, unsafeSeen>>

updateVars == <<goos, dirWritable, sameDevice, lockHolders, disk, pc, pre, ret, gateVars>>

indexVars ==
  <<userDir, bakDir, tmpIdx, buildPc, builtIdx, initialIdx, rdPc, rdM, rdS, rdOut>>

cliVars == <<qry, bld, upd, lnk, imt, emb, ini, san>>

vars == <<linkVars, importVars, syncVars, updateVars, indexVars, cliVars>>

(***************************************************************************)
(* Link engine: configuration                                              *)
(***************************************************************************)

\* Target names are kept as their "-"-separated parts (config.Target.Name).
Targets == {<<"cursor", "skills">>, <<"windsurf", "workflows">>}

\* config.Target.Source: the hub sub-directory a target links to.
Source(t) == t[Len(t)]

\* filepath.Join(cfg.RepoPath, t.Source)
HubPathOf(t) == <<"repo", Source(t)>>

OtherPath == <<"elsewhere">>
NoPath == <<>>

\* Contents of a user's directory, and of a backup left by an earlier run.
UserFiles == {"f1"}
OldFiles == {"f0"}

Missing == [kind |-> "missing", link |-> NoPath, files |-> {}]
SymlinkTo(p) == [kind |-> "symlink", link |-> p, files |-> {}]
RealDir(fs) == [kind |-> "dir", link |-> NoPath, files |-> fs]
RegularFile == [kind |-> "file", link |-> NoPath, files |-> {}]

\* Upper bound on the wall clock of a run.
MaxClock == 2

(***************************************************************************)
(* Backup names: <target-name>_<YYYYMMDDHHMMSS>                            *)
(***************************************************************************)

\* The layout "20060102150405" has 14 digits.
StampWidth == 14

\* Year, month, day, hour and minute of the run, as digits; the clock of
\* the model supplies the two digits of the seconds.
DatePrefix == <<2, 0, 2, 4, 0, 1, 0, 1, 1, 2, 0, 0>>

\* time.Now().Format("20060102150405")
FormatStamp(sec) == DatePrefix \o <<sec \div 10, sec % 10>>

\* time.Parse(layout, ts): -1 stands for a parse error.
ParseStamp(s) ==
  IF /\ Len(s) = StampWidth
     /\ \A i \in 1..Len(s) : s[i] \in 0..9
     /\ SubSeq(s, 1, Len(DatePrefix)) = DatePrefix
     /\ s[StampWidth - 1] * 10 + s[StampWidth] < 60
  THEN s[StampWidth - 1] * 10 + s[StampWidth]
  ELSE -1

\* backupDir: the backup path of a target at the current second.
BackupName(t, sec) == [base |-> t, suffix |-> FormatStamp(sec)]

BackupNames == {[base |-> b.base, suffix |-> b.suffix] : b \in backups}

BackupAt(n) == CHOOSE b \in backups : b.base = n.base /\ b.suffix = n.suffix

NoBackup == [base |-> <<>>, suffix |-> <<>>]

\* latestBackup: entries with prefix <target>_ whose remainder parses as a
\* timestamp, newest first; NoBackup when there is none.
Candidates(t) == {b \in backups : b.base = t /\ ParseStamp(b.suffix) >= 0}

\* latestBackup without the test of the <target>_ prefix.
LatestBackup_AnyTarget(t) ==
  LET all == {b \in backups : ParseStamp(b.suffix) >= 0}
  IN  IF all = {} THEN NoBackup
      ELSE LET b == CHOOSE c \in all : \A d \in all : ParseStamp(c.suffix) >= ParseStamp(d.suffix)
           IN [base |-> b.base, suffix |-> b.suffix]

LatestBackup_Oldest(t) ==
  IF Candidates(t) = {} THEN NoBackup
  ELSE LET b == CHOOSE c \in Candidates(t) :
                  \A d \in Candidates(t) : ParseStamp(c.suffix) <= ParseStamp(d.suffix)
       IN [base |-> b.base, suffix |-> b.suffix]

LatestBackup(t) ==
  IF Candidates(t) = {} THEN NoBackup
  ELSE LET b == CHOOSE c \in Candidates(t) :
                  \A d \in Candidates(t) : ParseStamp(c.suffix) >= ParseStamp(d.suffix)
       IN [base |-> b.base, suffix |-> b.suffix]

\* strings.LastIndex(t.Name, "-"): the tool name for the not-installed group.
BaseName(t) == IF Len(t) > 1 THEN SubSeq(t, 1, Len(t) - 1) ELSE t

(***************************************************************************)
(* Link engine: operations                                                 *)
(***************************************************************************)

Outcome(op, t, state, created) ==
  [op |-> op, target |-> t, state |-> state, tick |-> 1 - result.tick,
   pre |-> dest[t], created |-> created]

NoOutcome ==
  [op |-> "none", target |-> <<>>, state |-> "", tick |-> 0,
   pre |-> Missing, created |-> NoBackup]

\* info.Mode()&os.ModeSymlink != 0
IsSymlink_NotChecked(e) == e.kind # "missing"
IsSymlink(e) == e.kind = "symlink"

\* current == hubPath, for the path read by os.Readlink(dest)
PointsToHub_RepoOnly(e, t) == e.link = <<"repo">>
PointsToHub(e, t) == e.link = HubPathOf(t)

\* createSymlink(hubPath, dest): the entry left at dest.
CreateSymlink_NoSource(t) == IF canSymlink THEN SymlinkTo(<<"repo">>) ELSE Missing
CreateSymlink(t) == IF canSymlink THEN SymlinkTo(HubPathOf(t)) ELSE Missing

\* os.Rename(dest, bkp) fails when bkp is an existing directory.
RenameOntoFails_Overwrites(n) == FALSE
RenameOntoFails(n) == n \in BackupNames

\* The same when the directory is removed instead of renamed.
MovedToBackups_Removed(n, fs) == backups

\* The entries of <axon>/backups after dest was renamed to n.
MovedToBackups(n, fs) ==
  {b \in backups : ~(b.base = n.base /\ b.suffix = n.suffix)}
  \cup {[base |-> n.base, suffix |-> n.suffix, files |-> fs]}

\* linkTarget(cfg, t): what it does to the file system, and its outcome.
LinkOne(t) ==
  /\ hubDirs' = hubDirs \cup {Source(t)}
  /\ prev' = result
  /\ UNCHANGED <<parentExists, now, canSymlink>>
  /\ CASE dest[t].kind = "missing" /\ ~parentExists[t] ->
            /\ result' = Outcome("link", t, "not_installed", NoBackup)
            /\ UNCHANGED <<dest, backups>>
       [] dest[t].kind = "missing" /\ parentExists[t] ->
            /\ dest' = [dest EXCEPT ![t] = CreateSymlink(t)]
            /\ result' = Outcome("link", t, IF canSymlink THEN "linked" ELSE "error", NoBackup)
            /\ UNCHANGED backups
       [] IsSymlink(dest[t]) /\ PointsToHub(dest[t], t) ->
            /\ result' = Outcome("link", t, "already", NoBackup)
            /\ UNCHANGED <<dest, backups>>
       [] IsSymlink(dest[t]) /\ ~PointsToHub(dest[t], t) ->
            /\ dest' = [dest EXCEPT ![t] = CreateSymlink(t)]
            /\ result' = Outcome("link", t, IF canSymlink THEN "relinked" ELSE "error", NoBackup)
            /\ UNCHANGED backups
       [] dest[t].kind = "file" ->
            /\ result' = Outcome("link", t, "error", NoBackup)
            /\ UNCHANGED <<dest, backups>>
       [] dest[t].kind = "dir" /\ dest[t].files = {} ->
            /\ dest' = [dest EXCEPT ![t] = CreateSymlink(t)]
            /\ result' = Outcome("link", t, IF canSymlink THEN "linked" ELSE "error", NoBackup)
            /\ UNCHANGED backups
       [] dest[t].kind = "dir" /\ dest[t].files # {} ->
            LET bkp == BackupName(t, now) IN
            IF RenameOntoFails(bkp)
            THEN /\ result' = Outcome("link", t, "error", NoBackup)
                 /\ UNCHANGED <<dest, backups>>
            ELSE /\ backups' = MovedToBackups(bkp, dest[t].files)
                 /\ dest' = [dest EXCEPT ![t] = CreateSymlink(t)]
                 /\ result' = Outcome("link", t,
                                      IF canSymlink THEN "backed_up" ELSE "error", bkp)

\* `axon link <name>`: linkTarget for the one target.
LinkTarget(t) ==
  /\ LinkOne(t)
  /\ UNCHANGED <<importVars, syncVars, updateVars, indexVars, cliVars>>

\* ---- link all ---------------------------------------------------------------
\* The targets in ascending order of their names ("cursor-skills" <
\* "windsurf-workflows").
NameOrder == <<<<"cursor", "skills">>, <<"windsurf", "workflows">>>>

\* copy(targets, cfg.Targets); sort.Slice(targets, by Name)
SortByName_ConfigOrder(ts) == ts
SortByName(ts) ==
  SelectSeq(NameOrder, LAMBDA t : \E i \in 1..Len(ts) : ts[i] = t)

\* cfg.Targets: the configured targets, in the order of axon.yaml.
TargetLists ==
  {<<>>, <<NameOrder[1]>>, <<NameOrder[2]>>, NameOrder, <<NameOrder[2], NameOrder[1]>>}

NoLinkAll ==
  [pc |-> "idle", loaded |-> FALSE, cfg |-> <<>>, targets |-> <<>>, seen |-> <<>>, results |-> <<>>,
   notInstalled |-> {}, exit |-> ""]

\* runLink with no argument or "all", up to the loop.  ok: git is on the
\* PATH and the configuration loads.
LinkAllStart(cfg, ok) ==
  /\ lnk.pc = "idle"
  /\ lnk' = IF ok THEN [NoLinkAll EXCEPT !.pc = "loop", !.loaded = TRUE, !.cfg = cfg,
                                       !.targets = SortByName(cfg)]
            ELSE [NoLinkAll EXCEPT !.pc = "done", !.cfg = cfg, !.exit = "error"]
  /\ UNCHANGED <<linkVars, importVars, syncVars, updateVars, indexVars, qry, bld, upd, imt, emb, ini, san>>

\* One round of the loop: linkTarget for the next target; a target that is
\* not installed only goes to notInstalledMap.
LinkAllStep ==
  /\ lnk.pc = "loop"
  /\ Len(lnk.seen) < Len(lnk.targets)
  /\ LET t == lnk.targets[Len(lnk.seen) + 1] IN
       /\ LinkOne(t)
       /\ lnk' = [lnk EXCEPT
                    !.seen = Append(@, t),
                    !.results = IF result'.state = "not_installed" THEN @
                                ELSE Append(@, [name |-> t, state |-> result'.state]),
                    !.notInstalled = IF result'.state = "not_installed"
                                     THEN @ \cup {BaseName(t)} ELSE @]
  /\ UNCHANGED <<importVars, syncVars, updateVars, indexVars, qry, bld, upd, imt, emb, ini, san>>

\* After the loop: the grouped report, and an error when the errors group
\* is not empty.
LinkAllReport ==
  /\ lnk.pc = "loop"
  /\ Len(lnk.seen) = Len(lnk.targets)
  /\ LET errors == SelectSeq(lnk.results, LAMBDA r : r.state = "error") IN
       lnk' = [lnk EXCEPT !.pc = "done", !.exit = IF Len(errors) > 0 THEN "error" ELSE "nil"]
  /\ UNCHANGED <<linkVars, importVars, syncVars, updateVars, indexVars, qry, bld, upd, imt, emb, ini, san>>

\* One iteration of runUnlink's loop over the targets.  renameOk: the
\* os.Rename(backup, dest) of the restore succeeds.
UnlinkTarget(t, renameOk) ==
  /\ prev' = result
  /\ UNCHANGED <<parentExists, hubDirs, now, canSymlink, importVars, syncVars, updateVars, indexVars, cliVars>>
  /\ CASE ~parentExists[t] ->
            /\ result' = Outcome("unlink", t, "not_installed", NoBackup)
            /\ UNCHANGED <<dest, backups>>
       [] parentExists[t] /\ dest[t].kind = "missing" ->
            /\ result' = Outcome("unlink", t, "not_exist", NoBackup)
            /\ UNCHANGED <<dest, backups>>
       [] parentExists[t] /\ dest[t].kind # "missing" /\ ~IsSymlink(dest[t]) ->
            /\ result' = Outcome("unlink", t, "not_symlink", NoBackup)
            /\ UNCHANGED <<dest, backups>>
       [] parentExists[t] /\ dest[t].kind # "missing" /\ IsSymlink(dest[t]) ->
            LET backup == LatestBackup(t) IN
            IF backup = NoBackup
            THEN /\ dest' = [dest EXCEPT ![t] = Missing]
                 /\ result' = Outcome("unlink", t, "removed", NoBackup)
                 /\ UNCHANGED backups
            ELSE IF ~renameOk
            THEN /\ dest' = [dest EXCEPT ![t] = Missing]
                 /\ result' = Outcome("unlink", t, "error", NoBackup)
                 /\ UNCHANGED backups
            ELSE /\ dest' = [dest EXCEPT ![t] = RealDir(BackupAt(backup).files)]
                 /\ backups' = backups \ {BackupAt(backup)}
                 /\ result' = Outcome("unlink", t, "restored", NoBackup)

\* The wall clock advances between operations.
Tick ==
  /\ now < MaxClock
  /\ now' = now + 1
  /\ UNCHANGED <<parentExists, dest, hubDirs, backups, canSymlink, result, prev, importVars, syncVars, updateVars, indexVars, cliVars>>

(***************************************************************************)
(* Importer (internal/importer/importer.go)                                *)
(***************************************************************************)

\* A file name is the sequence of its "."-separated parts; a part is a tuple
\* so that the part ".conflict-<tool>" can be told from the others.
Part(x) == <<x>>
ConflictPart(tool) == <<"conflict", tool>>

Tools == {"t1", "t2"}

NameA == <<Part("a"), Part("md")>>                           \* a.md
NameAC == <<Part("a"), ConflictPart("t1"), Part("md")>>      \* a.conflict-t1.md
NameB == <<Part("b")>>                                       \* b

\* filepath.Ext: the suffix from the final dot, empty when there is none.
Ext(n) == IF Len(n) > 1 THEN <<n[Len(n)]>> ELSE <<>>

\* strings.TrimSuffix(original, ext)
TrimExt(n) == SubSeq(n, 1, Len(n) - Len(Ext(n)))

\* conflictPath: insert .conflict-<tool> before the final extension.
ConflictPath(n, tool) == TrimExt(n) \o <<ConflictPart(tool)>> \o Ext(n)

\* The files a source directory may hold, in the lexical order in which
\* filepath.WalkDir visits them: a.conflict-t1.md < a.md < b.
WalkOrder == <<NameAC, NameA, NameB>>

SrcNames == {WalkOrder[i] : i \in 1..Len(WalkOrder)}

HubNames == SrcNames \cup {ConflictPath(n, tool) : n \in SrcNames, tool \in Tools}

Absent == 0
Contents == {1, 2}

\* Exclude patterns: a literal name, or *.<ext>.
Literal(n) == [glob |-> "literal", name |-> n]
StarExt(x) == [glob |-> "star", name |-> <<Part(x)>>]

\* filepath.Match(pattern, name)
Match(p, n) ==
  IF p.glob = "literal" THEN p.name = n
  ELSE Len(n) > 1 /\ Ext(n) = p.name

\* matchesExclude: a pattern matches the base name or the relative path
\* (the same string for a file at the root of srcDir).
MatchesExclude(n, patterns) ==
  \E i \in 1..Len(patterns) : Match(patterns[i], n) \/ Match(patterns[i], n)

\* copyFile: os.OpenFile(dst, O_WRONLY|O_CREATE|O_TRUNC) then io.Copy.
CopyFile(h, dst, c) == [h EXCEPT ![dst] = c]

\* fileMD5(path) == fileMD5(dst), taken as equality of the contents.
SameMD5_Never(c, d) == FALSE
SameMD5(c, d) == c = d

EmptyResult == [conflicts |-> <<>>, imported |-> 0, skipped |-> 0]

\* The WalkDir callback for one file of srcDir.
Visit(n, acc, src, tool, excludes) ==
  IF src[n] = Absent \/ MatchesExclude(n, excludes) THEN acc
  ELSE IF acc.hub[n] # Absent
  THEN IF SameMD5(src[n], acc.hub[n])
       THEN [acc EXCEPT !.res.skipped = @ + 1]
       ELSE [hub |-> CopyFile(acc.hub, ConflictPath(n, tool), src[n]),
             res |-> [acc.res EXCEPT
                        !.conflicts = Append(@, [original |-> n,
                                                 conflict |-> ConflictPath(n, tool),
                                                 tool |-> tool]),
                        !.imported = @ + 1]]
  ELSE [hub |-> CopyFile(acc.hub, n, src[n]),
        res |-> [acc.res EXCEPT !.imported = @ + 1]]

RECURSIVE Walk(_, _, _, _, _)
Walk(i, acc, src, tool, excludes) ==
  IF i > Len(WalkOrder) THEN acc
  ELSE Walk(i + 1, Visit(WalkOrder[i], acc, src, tool, excludes), src, tool, excludes)

ExcludeSets == {<<>>, <<Literal(NameB)>>, <<StarExt("md")>>}

SourceTrees == [SrcNames -> Contents \cup {Absent}]

\* What ImportDir leaves in the hub and returns.
Imported(src, tool, excludes) ==
  LET out == Walk(1, [hub |-> hub, res |-> EmptyResult], src, tool, excludes) IN
  /\ hub' = out.hub
  /\ imp' = [res |-> out.res, tool |-> tool]

NoImport == [res |-> EmptyResult, tool |-> ""]

NoRun ==
  [n |-> 0, src |-> [x \in SrcNames |-> Absent], tool |-> "", excludes |-> <<>>,
   before |-> [x \in HubNames |-> Absent], first |-> EmptyResult]

ImportDir(src, tool, excludes) ==
  /\ Imported(src, tool, excludes)
  /\ again' = NoRun
  /\ UNCHANGED <<linkVars, syncVars, updateVars, indexVars, cliVars>>

\* ImportDir(S, H), remembering S, H and the result.
ImportOnce(src, tool, excludes) ==
  /\ again.n = 0
  /\ Imported(src, tool, excludes)
  /\ again' = [n |-> 1, src |-> src, tool |-> tool, excludes |-> excludes,
               before |-> hub, first |-> imp'.res]
  /\ UNCHANGED <<linkVars, syncVars, updateVars, indexVars, cliVars>>

\* ImportDir(S, H) run a second time in succession.
ImportAgain ==
  /\ again.n = 1
  /\ Imported(again.src, again.tool, again.excludes)
  /\ again' = [again EXCEPT !.n = 2]
  /\ UNCHANGED <<linkVars, syncVars, updateVars, indexVars, cliVars>>

(***************************************************************************)
(* Importer over a source tree with directories                            *)
(***************************************************************************)

\* A relative path is the sequence of its components.  The entries a source
\* directory may hold, in the lexical order in which filepath.WalkDir
\* visits them.
TreeOrder ==
  << <<"docs">>, <<"docs", "a.md">>, <<"docs", "tmp">>, <<"docs", "tmp", "x.md">>,
     <<"junk.tmp">>, <<"z.md">> >>

TreePaths == {TreeOrder[i] : i \in 1..Len(TreeOrder)}
TreeDirs == {<<"docs">>, <<"docs", "tmp">>}
TreeFiles == TreePaths \ TreeDirs

\* What a path holds: nothing, a directory, a file with content 1 or 2, or
\* the beginning of a file whose copy broke off.
IsDir == 9
Partial == 3

\* filepath.Base(relPath)
Last(path) == path[Len(path)]

\* The extension of a file or directory name.
ExtOf(c) ==
  CASE c \in {"a.md", "x.md", "z.md"} -> "md"
    [] c = "junk.tmp" -> "tmp"
    [] OTHER -> ""

\* An exclude pattern is the sequence of its "/"-separated parts: a literal
\* name, "*", or "*.<ext>".
Lit(c) == [glob |-> "literal", s |-> c]
Star == [glob |-> "star", s |-> ""]
StarDot(x) == [glob |-> "ext", s |-> x]

GlobMatch(g, c) ==
  CASE g.glob = "literal" -> g.s = c
    [] g.glob = "star" -> TRUE
    [] OTHER -> ExtOf(c) = g.s

\* filepath.Match(pattern, name): "*" does not match a separator, so the
\* pattern and the name have the same number of parts.
PathMatch(pattern, path) ==
  /\ Len(pattern) = Len(path)
  /\ \A i \in 1..Len(path) : GlobMatch(pattern[i], path[i])

\* matchesExclude(relPath, patterns)
matchesExclude_BaseOnly(rel, patterns) ==
  \E i \in 1..Len(patterns) : PathMatch(patterns[i], <<Last(rel)>>)

matchesExclude(rel, patterns) ==
  \E i \in 1..Len(patterns) :
    PathMatch(patterns[i], <<Last(rel)>>) \/ PathMatch(patterns[i], rel)

TreeExcludes ==
  { <<>>,
    << <<StarDot("tmp")>> >>,
    << <<Lit("tmp")>> >>,
    << <<Lit("docs"), Lit("tmp")>> >>,
    << <<Lit("docs"), Star>> >>,
    << <<Star>> >>,
    << <<Lit(".DS_Store")>>, <<Lit("docs"), Lit("a.md")>> >>,
    << <<Lit("docs")>> >> }

\* A file of the hub: the path of a source file, or its conflict path.
HubKey(path, tool) == [path |-> path, conflict |-> tool]
TreeHubKeys == {HubKey(f, tool) : f \in TreeFiles, tool \in {"", "t1"}}

\* How the file-system operation on the failing entry ends: nothing was
\* written, or copyFile broke off after creating the destination.
FailKinds == {"nothing", "partial"}
NoFail == <<>>

\* A non-nil error returned by the callback ends filepath.WalkDir.
StopsWalk_Never(err) == FALSE
StopsWalk(err) == err

\* q lies below directory d.
Under(q, d) == Len(q) > Len(d) /\ SubSeq(q, 1, Len(d)) = d

\* The WalkDir callback for entry path.  acc: the hub, the result so far,
\* the directories for which SkipDir was returned, the error.
VisitEntry(path, acc, src, tool, excludes, failAt, failKind) ==
  LET dst == HubKey(path, "")
      conflictDst == HubKey(path, tool)
      fails == failAt = path IN
    IF StopsWalk(acc.err) \/ src[path] = Absent
       \/ \E d \in acc.skipDirs : Under(path, d)
      THEN acc
    ELSE IF matchesExclude(path, excludes)
      THEN IF src[path] = IsDir THEN [acc EXCEPT !.skipDirs = @ \cup {path}] ELSE acc
    ELSE IF src[path] = IsDir
      THEN IF fails THEN [acc EXCEPT !.err = TRUE]
           ELSE [acc EXCEPT !.dirs = @ \cup {path}]
    ELSE IF acc.hub[dst] # Absent
      THEN IF fails /\ failKind = "nothing" THEN [acc EXCEPT !.err = TRUE]
           ELSE IF SameMD5(src[path], acc.hub[dst])
             THEN [acc EXCEPT !.res.skipped = @ + 1]
           ELSE IF fails
             THEN [acc EXCEPT !.err = TRUE, !.hub[conflictDst] = Partial]
           ELSE [acc EXCEPT !.hub[conflictDst] = src[path],
                            !.res.conflicts = Append(@, [original |-> dst,
                                                         conflict |-> conflictDst,
                                                         tool |-> tool]),
                            !.res.imported = @ + 1]
    ELSE IF fails
      THEN [acc EXCEPT !.err = TRUE,
                       !.hub[dst] = IF failKind = "partial" THEN Partial ELSE Absent]
    ELSE [acc EXCEPT !.hub[dst] = src[path], !.res.imported = @ + 1]

RECURSIVE WalkDir(_, _, _, _, _, _, _)
WalkDir(i, acc, src, tool, excludes, failAt, failKind) ==
  IF i > Len(TreeOrder) THEN acc
  ELSE WalkDir(i + 1,
               VisitEntry(TreeOrder[i], acc, src, tool, excludes, failAt, failKind),
               src, tool, excludes, failAt, failKind)

\* The source trees: an entry exists only inside an existing directory.
SrcTrees ==
  {t \in [TreePaths -> {Absent, 1, 2, IsDir}] :
     /\ \A d \in TreeDirs : t[d] \in {Absent, IsDir}
     /\ \A f \in TreeFiles : t[f] # IsDir
     /\ \A q \in TreePaths, d \in TreeDirs : (Under(q, d) /\ t[d] = Absent) => t[q] = Absent
     /\ t[<<"docs", "tmp", "x.md">>] # 2
     /\ t[<<"junk.tmp">>] # 2}

\* The hubs an import may find: some of the source's files are there, with
\* the same or another content, and no conflict file.
TreeHubs ==
  {h \in [TreeHubKeys -> {Absent, 1, 2}] :
     /\ \A k \in TreeHubKeys : k.conflict # "" => h[k] = Absent
     /\ h[HubKey(<<"docs", "tmp", "x.md">>, "")] = Absent
     /\ h[HubKey(<<"junk.tmp">>, "")] # 1
     /\ h[HubKey(<<"z.md">>, "")] # 2}

NoTreeImport == [ran |-> FALSE]

\* ImportDir(srcDir, dstDir, "t1", excludes) over a tree, with the
\* file-system operation at failAt failing (NoFail: none fails).
ImportTree(src, before, excludes, failAt, failKind) ==
  /\ ~imt.ran
  /\ LET out == WalkDir(1, [hub |-> before, res |-> EmptyResult, dirs |-> {},
                            skipDirs |-> {}, err |-> FALSE],
                        src, "t1", excludes, failAt, failKind) IN
       imt' = [ran |-> TRUE, src |-> src, before |-> before, excludes |-> excludes,
               failAt |-> failAt, hub |-> out.hub, dirs |-> out.dirs,
               res |-> out.res, err |-> out.err]
  /\ UNCHANGED <<linkVars, importVars, syncVars, updateVars, indexVars, qry, bld, upd, lnk, emb, ini, san>>

(***************************************************************************)
(* Sync engine (cmd sync: runSync, syncReadWrite, syncReadOnly)            *)
(***************************************************************************)

SyncModes == {"read-only", "read-write", ""}

\* An exclude pattern without a slash: a literal file name (.DS_Store) or
\* *.<ext> (*.tmp).
PatDSStore == [star |-> FALSE, stem |-> "", ext |-> "DS_Store"]
PatTmp == [star |-> TRUE, stem |-> "", ext |-> "tmp"]
ExcludeLists == {<<>>, <<PatDSStore, PatTmp>>}

\* Files of the hub working tree: skill.md, junk.tmp, skills/x/cache.tmp.
SkillMd == [dir |-> <<>>, stem |-> "skill", ext |-> "md"]
JunkTmp == [dir |-> <<>>, stem |-> "junk", ext |-> "tmp"]
CacheTmp == [dir |-> <<"skills", "x">>, stem |-> "cache", ext |-> "tmp"]
SyncFiles == {SkillMd, JunkTmp, CacheTmp}

\* The pattern against the base name of the file.
Glob(P, f) == IF P.star THEN f.ext = P.ext ELSE f.stem = P.stem /\ f.ext = P.ext

\* git's reading of .git/info/exclude: a pattern without a slash matches the
\* base name of a file at any depth.
Ignored(f, excludeFile) ==
  \E i \in 1..Len(excludeFile.lines) : Glob(excludeFile.lines[i], f)

\* git add . : stage the tracked files that are still there, and the
\* untracked files that are not ignored.
Staged(files, index, excludeFile) ==
  {f \in files : f \in index \/ ~Ignored(f, excludeFile)}

\* Directories of the hub working tree, as paths relative to the hub root.
RootGit == <<".git">>

\* The .git directories an embedded repository may bring, in the lexical
\* order in which filepath.WalkDir reaches them after the hub's own:
\*   skills/x/.git, skills/x/.git/modules/.git, skills/x/sub/.git,
\*   skills/y/.git.
GitDirOrder ==
  << RootGit,
     <<"skills", "x", ".git">>,
     <<"skills", "x", ".git", "modules", ".git">>,
     <<"skills", "x", "sub", ".git">>,
     <<"skills", "y", ".git">> >>

NestedGitDirs == {GitDirOrder[i] : i \in 2..Len(GitDirOrder)}

\* p is q or lies below q.
Below(p, q) == Len(p) >= Len(q) /\ SubSeq(p, 1, Len(q)) = q

\* The sets of .git directories a hub can hold: its own, and nested ones,
\* each with the directories above it.
GitDirSets ==
  {{RootGit} \cup n : n \in {m \in SUBSET NestedGitDirs :
      \A p \in m : \A q \in NestedGitDirs : (Below(p, q) /\ p # q) => q \in m}}

\* if path == rootGit { return filepath.SkipDir }
IsRootGit_Never(p) == FALSE
IsRootGit(p) == p = RootGit

\* os.RemoveAll(path)
RemoveAll(dirs, p) == {q \in dirs : ~Below(q, p)}

\* The walk never enters a directory for which the callback returned
\* SkipDir, which it does for every .git directory it visits.
Skipped(p) == \E k \in 1..(Len(p) - 1) : p[k] = ".git"

NoFailure == <<>>

\* The walk of stripNestedGitDirs from the i-th .git directory on; failing
\* is the directory whose RemoveAll returns an error, if any.
RECURSIVE StripFrom(_, _, _)
StripFrom(i, dirs, failing) ==
  IF i > Len(GitDirOrder) THEN [dirs |-> dirs, ok |-> TRUE]
  ELSE LET p == GitDirOrder[i] IN
       IF p \notin dirs \/ Skipped(p) THEN StripFrom(i + 1, dirs, failing)
       ELSE IF IsRootGit(p) THEN StripFrom(i + 1, dirs, failing)
       ELSE IF p = failing THEN [dirs |-> dirs, ok |-> FALSE]
       ELSE StripFrom(i + 1, RemoveAll(dirs, p), failing)

\* The content writeGitExcludes gives .git/info/exclude: the header, then
\* the patterns one per line.
ExcludeFileFor(excludes) == [header |-> TRUE, lines |-> excludes]

\* The exclude file of a fresh repository.
DefaultExcludeFile == [header |-> FALSE, lines |-> <<>>]

Ran(cmd, ok) == [cmd |-> cmd, ok |-> ok]

\* switch cfg.SyncMode { case "read-only": ...; default: ... }
IsReadOnly_Never(mode) == FALSE
IsReadOnly_EqualFold(mode) == mode \in {"read-only", "Read-Only"}
IsReadOnly(mode) == mode = "read-only"

\* After git pull --rebase: push, or return the error.
AfterPullRebase_PushAnyway(ok) == "push"
AfterPullRebase(ok) == IF ok THEN "push" ELSE "failed"

Return(failed) ==
  /\ syncPc' = "done"
  /\ syncErr' = failed

\* config.Load and the start of runSync, in the repository as it is then.
SyncStart(mode, excludes, gitDirs, files, hasRemote, remoteEmpty, dirty) ==
  /\ syncPc = "done"
  /\ syncCfg' = [mode |-> mode, excludes |-> excludes]
  /\ repo' = [repo EXCEPT !.gitDirs = gitDirs, !.atStart = gitDirs,
                          !.files = files,
                          !.hasRemote = hasRemote,
                          !.remoteEmpty = remoteEmpty, !.dirty = dirty]
  /\ syncPc' = "exclude"
  /\ syncLog' = <<>>
  /\ syncErr' = FALSE
  /\ UNCHANGED <<linkVars, importVars, updateVars, indexVars, cliVars>>

WriteGitExcludes(ok) ==
  /\ syncPc = "exclude"
  /\ syncLog' = Append(syncLog, Ran("exclude", ok))
  /\ IF ok
     THEN /\ repo' = [repo EXCEPT !.excludeFile = ExcludeFileFor(syncCfg.excludes)]
          /\ syncPc' = IF IsReadOnly(syncCfg.mode) THEN "status" ELSE "remote"
          /\ UNCHANGED syncErr
     ELSE /\ Return(TRUE)
          /\ UNCHANGED repo
  /\ UNCHANGED <<syncCfg, linkVars, importVars, updateVars, indexVars, cliVars>>

\* gitHasRemote: git remote
GitHasRemote ==
  /\ syncPc = "remote"
  /\ syncLog' = Append(syncLog, Ran("remote", TRUE))
  /\ syncPc' = "strip"
  /\ UNCHANGED <<syncCfg, repo, syncErr, linkVars, importVars, updateVars, indexVars, cliVars>>

\* stripNestedGitDirs: git rm --cached and os.RemoveAll for each nested .git;
\* a failing RemoveAll ends the walk with the directories before it removed.
StripNestedGitDirs(failing) ==
  LET out == StripFrom(1, repo.gitDirs, failing) IN
  /\ syncPc = "strip"
  /\ failing \in repo.gitDirs \cup {NoFailure}
  /\ repo' = [repo EXCEPT !.gitDirs = out.dirs]
  /\ syncLog' = Append(syncLog, Ran("strip", out.ok))
  /\ IF out.ok
     THEN syncPc' = "add" /\ UNCHANGED syncErr
     ELSE Return(TRUE)
  /\ UNCHANGED <<syncCfg, linkVars, importVars, updateVars, indexVars, cliVars>>

GitAdd(ok) ==
  /\ syncPc = "add"
  /\ syncLog' = Append(syncLog, Ran("add", ok))
  /\ IF ok THEN syncPc' = "commit" /\ UNCHANGED syncErr ELSE Return(TRUE)
  /\ repo' = [repo EXCEPT !.index = IF ok THEN Staged(repo.files, @, repo.excludeFile)
                                    ELSE @]
  /\ UNCHANGED <<syncCfg, linkVars, importVars, updateVars, indexVars, cliVars>>

\* git commit: committed, nothing to commit, or another failure.
GitCommit(outcome) ==
  /\ syncPc = "commit"
  /\ syncLog' = Append(syncLog, Ran("commit", outcome # "failed"))
  /\ IF outcome = "failed" THEN Return(TRUE)
     ELSE IF ~repo.hasRemote THEN Return(FALSE)
     ELSE syncPc' = "lsremote" /\ UNCHANGED syncErr
  /\ repo' = [repo EXCEPT !.dirty = IF outcome = "failed" THEN @ ELSE FALSE]
  /\ UNCHANGED <<syncCfg, linkVars, importVars, updateVars, indexVars, cliVars>>

\* gitRemoteIsEmpty: git ls-remote --heads origin
GitRemoteIsEmpty ==
  /\ syncPc = "lsremote"
  /\ syncLog' = Append(syncLog, Ran("ls-remote", TRUE))
  /\ syncPc' = IF repo.remoteEmpty THEN "pushInitial" ELSE "pull"
  /\ UNCHANGED <<syncCfg, repo, syncErr, linkVars, importVars, updateVars, indexVars, cliVars>>

\* git push -u origin master
GitPushInitial(ok) ==
  /\ syncPc = "pushInitial"
  /\ syncLog' = Append(syncLog, Ran("push", ok))
  /\ Return(~ok)
  /\ repo' = [repo EXCEPT !.remoteEmpty = IF ok THEN FALSE ELSE @]
  /\ UNCHANGED <<syncCfg, linkVars, importVars, updateVars, indexVars, cliVars>>

\* What a pull leaves: the files the upstream commits added are in the
\* working tree and in the index.
Pulled(r, pulled) ==
  [r EXCEPT !.files = @ \cup pulled, !.index = @ \cup pulled]

\* git pull --rebase origin master
GitPullRebase(ok, pulled) ==
  /\ syncPc = "pull"
  /\ syncLog' = Append(syncLog, Ran("pull --rebase", ok))
  /\ IF AfterPullRebase(ok) = "push"
     THEN syncPc' = "push" /\ UNCHANGED syncErr
     ELSE Return(TRUE)
  /\ repo' = IF ok THEN Pulled(repo, pulled) ELSE repo
  /\ UNCHANGED <<syncCfg, linkVars, importVars, updateVars, indexVars, cliVars>>

\* git push origin master
GitPush(ok) ==
  /\ syncPc = "push"
  /\ syncLog' = Append(syncLog, Ran("push", ok))
  /\ Return(~ok)
  /\ UNCHANGED <<syncCfg, repo, linkVars, importVars, updateVars, indexVars, cliVars>>

\* gitIsDirty: git status --porcelain, then the warning about local edits.
GitIsDirty(ok) ==
  /\ syncPc = "status"
  /\ syncLog' = IF ok /\ repo.dirty
                THEN syncLog \o <<Ran("status", ok), Ran("warn", TRUE)>>
                ELSE Append(syncLog, Ran("status", ok))
  /\ IF ok THEN syncPc' = "pullFF" /\ UNCHANGED syncErr ELSE Return(TRUE)
  /\ UNCHANGED <<syncCfg, repo, linkVars, importVars, updateVars, indexVars, cliVars>>

\* git pull --ff-only origin master
GitPullFF(ok, pulled) ==
  /\ syncPc = "pullFF"
  /\ syncLog' = Append(syncLog, Ran("pull --ff-only", ok))
  /\ Return(~ok)
  /\ repo' = IF ok THEN Pulled(repo, pulled) ELSE repo
  /\ UNCHANGED <<syncCfg, linkVars, importVars, updateVars, indexVars, cliVars>>

(***************************************************************************)
(* Self-update (cmd/update.go, cmd/selfupdate_swap.go)                     *)
(***************************************************************************)

\* The `axon update` processes, and the __selfupdate-swap helper each one
\* spawns on Windows.
Updaters == {"u1", "u2"}
Helpers == {"h1", "h2"}
HelperOf(u) == IF u = "u1" THEN "h1" ELSE "h2"
ParentOf(h) == IF h = "h1" THEN "u1" ELSE "u2"
Procs == Updaters \cup Helpers

\* What a binary prints for -v: the installed version, the release, and a
\* release binary that does not report the release's version.
Installed == "1.0"
Expected == "2.0"
Broken == "?"
Nothing == "none"
StaleDir == "dir"

CurrentPath == <<"current">>
BackupPath == <<"current", "bak">>
FailedPath == <<"current", "failed">>
StagedPath == <<"axon.new.exe">>
ArchivePath(u) == <<"tmp", u, "archive">>
TmpNewPath(u) == <<"tmp", u, "axon.new">>
TmpDir(u) == <<"tmp", u>>

InstallPaths == {CurrentPath, BackupPath, FailedPath, StagedPath}
UpdatePaths ==
  InstallPaths \cup {ArchivePath(u) : u \in Updaters} \cup {TmpNewPath(u) : u \in Updaters}
    \cup {TmpDir(u) : u \in Updaters}

\* The new binary a process swaps in: extracted into its temp dir, or, for
\* the helper, staged next to the current binary.
NewPathOf(p) == IF p \in Updaters THEN TmpNewPath(p) ELSE StagedPath

\* os.Rename(from, to) returns an error.
RenameFails(from, to) ==
  \/ disk[from] = Nothing
  \/ disk[to] = StaleDir
  \/ ~dirWritable
  \/ (from \notin InstallPaths /\ ~sameDevice)

Renamed(from, to) == [disk EXCEPT ![to] = disk[from], ![from] = Nothing]

\* os.Remove(path) / cleanupBackup(path): a non-empty directory stays.
Removed(path) == IF disk[path] = StaleDir THEN disk ELSE [disk EXCEPT ![path] = Nothing]

Goto(p, step) == pc' = [pc EXCEPT ![p] = step]

\* l.TryLock() reports the lock taken.
TryLock_AlwaysLocked(p) == TRUE
TryLock(p) == lockHolders = {}

\* The deferred calls of runUpdate once the temp dir exists, in the order
\* they run: os.RemoveAll(tmpDir), then unlock().
Deferred == <<"removeTmp", "unlock">>

\* The step a process goes to when its swap has returned.
AfterSwap(p) == IF p \in Updaters THEN Deferred[1] ELSE "unlock"

\* ---- checksum manifest ---------------------------------------------------
\* A manifest is a sequence of lines, a line the sequence of its
\* whitespace-separated fields, a field a sequence of characters (the asset
\* name counts as one character).
AssetName == <<"axon.tar.gz">>
OtherName == <<"other.zip">>
Starred(name) == <<"*">> \o name

HexLower == {"a", "b", "0"}
HexUpper == {"A", "B"}

\* strings.ToLower
ToLowerChar(c) == IF c = "A" THEN "a" ELSE IF c = "B" THEN "b" ELSE c
ToLower(h) == [i \in 1..Len(h) |-> ToLowerChar(h[i])]

\* strings.EqualFold
EqualFold(x, y) == ToLower(x) = ToLower(y)

\* hex.DecodeString(h) succeeds
IsHex(h) == Len(h) % 2 = 0 /\ \A i \in 1..Len(h) : h[i] \in HexLower \cup HexUpper

\* strings.TrimPrefix(name, "*")
TrimStar(name) == IF Len(name) > 0 /\ name[1] = "*" THEN Tail(name) ELSE name

\* name == filename in parseExpectedSHA256
NameMatches_Any(name, filename) == TRUE
NameMatches(name, filename) == name = filename

\* fileSHA256Hex(archivePath): lowercase hex
FileSHA256Hex == <<"a", "b">>

ParseError == <<"error">>

\* parseExpectedSHA256: the first line of at least two fields whose last
\* field names the file decides.
RECURSIVE ParseFrom(_, _, _)
ParseFrom(m, i, filename) ==
  IF i > Len(m) THEN ParseError
  ELSE IF Len(m[i]) < 2 THEN ParseFrom(m, i + 1, filename)
  ELSE IF NameMatches(TrimStar(m[i][Len(m[i])]), filename)
       THEN IF IsHex(m[i][1]) THEN ToLower(m[i][1]) ELSE ParseError
       ELSE ParseFrom(m, i + 1, filename)

ParseExpectedSHA256(m, filename) == ParseFrom(m, 1, filename)

MaxManifestLines == 2

ManifestLines ==
  { <<<<"a", "b">>, AssetName>>,
    <<<<"A", "B">>, Starred(AssetName)>>,
    <<<<"a", "a">>, AssetName>>,
    <<<<"a", "b">>, OtherName>>,
    <<<<"a", "b">>, OtherName, AssetName>>,
    <<<<"a", "g">>, AssetName>>,
    <<<<"a", "b">>>> }

Manifests == UNION {[1..n -> ManifestLines] : n \in 0..MaxManifestLines}

\* ---- archive entries -----------------------------------------------------
\* An entry name is a sequence of tokens: path components and the
\* separators "/" and "\\", alternating.
Separators == {"/", "\\"}

\* strings.ReplaceAll(name, "\\", "/")
ReplaceBackslashes(name) == [i \in 1..Len(name) |-> IF name[i] = "\\" THEN "/" ELSE name[i]]

\* strings.TrimPrefix(name, "./")
TrimDotSlash(name) ==
  IF Len(name) >= 2 /\ name[1] = "." /\ name[2] = "/" THEN SubSeq(name, 3, Len(name)) ELSE name

\* filepath.Clean of a relative name without "..": its components other
\* than "."; no component left is ".".
IsComponent(t) == t \notin {"/", "."}
Clean(name) == SelectSeq(name, IsComponent)

\* sanitizeArchivePath: the cleaned components, or <<>> for "".
SanitizedAfterTrim(name) ==
  IF name = <<>> THEN <<>>
  ELSE IF name[1] = "/" THEN <<>>
  ELSE IF \E i \in 1..Len(name) : name[i] = ".." THEN <<>>
  ELSE Clean(name)

SanitizeArchivePath(name) == SanitizedAfterTrim(TrimDotSlash(ReplaceBackslashes(name)))

\* ---- sanitizeArchivePath, with the separators of its result -----------------
\* The longest entry name looked at, in tokens.
MaxNameLen == 5

NameTokens == {"x", "dir", "abs", ".", "..", "/", "\\"}

\* Entry names: two components are never adjacent (they would be one
\* component).
EntryNames ==
  UNION {{n \in [1..k -> NameTokens] :
            \A i \in 1..(k - 1) : n[i] \in Separators \/ n[i + 1] \in Separators}
         : k \in 0..MaxNameLen}

\* os.PathSeparator
Separator(os) == IF os = "windows" THEN "\\" ELSE "/"

RECURSIVE Join(_, _)
Join(parts, sep) ==
  IF parts = <<>> THEN <<>>
  ELSE IF Len(parts) = 1 THEN parts
  ELSE <<Head(parts), sep>> \o Join(Tail(parts), sep)

\* filepath.Clean of a relative name without "..": the "." and empty
\* components go, the others are joined by the separator of the platform;
\* "." when nothing is left.
filepathClean(name, os) ==
  IF Clean(name) = <<>> THEN <<".">> ELSE Join(Clean(name), Separator(os))

\* sanitizeArchivePath(name), built for GOOS os; <<>> is "".
sanitizeArchivePath(name, os) ==
  LET n == TrimDotSlash(ReplaceBackslashes(name))
  IN  IF n = <<>> THEN <<>>
      ELSE IF n[1] = "/" THEN <<>>
      ELSE IF \E i \in 1..Len(n) : n[i] = ".." THEN <<>>
      ELSE IF filepathClean(n, os) = <<".">> THEN <<>>
      ELSE filepathClean(n, os)

NoSanitize == [ran |-> FALSE]

\* One call of sanitizeArchivePath in a build for os.
Sanitize(name, os) ==
  /\ ~san.ran
  /\ san' = [ran |-> TRUE, goos |-> os, name |-> name, out |-> sanitizeArchivePath(name, os)]
  /\ UNCHANGED <<linkVars, importVars, syncVars, updateVars, indexVars, qry, bld, upd, lnk, imt, emb, ini>>

\* filepath.Base
Base(clean) == clean[Len(clean)]

\* want := "axon", or "axon.exe" on Windows
Want == IF goos = "windows" THEN "axon.exe" ELSE "axon"

\* name == "" in the extraction loop: the entry is passed over.
SkipsEntry(name) == SanitizeArchivePath(name) = <<>>

\* The loop of extractFromTarGz / extractFromZip from entry i on: what is
\* written to destPath, or Nothing when the binary is not in the archive.
RECURSIVE ExtractFrom(_, _, _)
ExtractFrom(es, i, want) ==
  IF i > Len(es) THEN Nothing
  ELSE IF SkipsEntry(es[i].name) THEN ExtractFrom(es, i + 1, want)
  ELSE IF Base(SanitizeArchivePath(es[i].name)) # want THEN ExtractFrom(es, i + 1, want)
  ELSE IF es[i].isDir THEN ExtractFrom(es, i + 1, want)
  ELSE es[i].body

Entry(name, isDir, body) == [name |-> name, isDir |-> isDir, body |-> body]

ArchiveEntries ==
  { Entry(<<Want>>, FALSE, Expected),
    Entry(<<Want>>, FALSE, Broken),
    Entry(<<"dir", "\\", Want>>, FALSE, Expected),
    Entry(<<".", "/", Want>>, TRUE, Nothing),
    Entry(<<"dir", "\\", "..", "\\", Want>>, FALSE, Broken),
    Entry(<<"/", Want>>, FALSE, Broken),
    Entry(<<".", "/">>, TRUE, Nothing),
    Entry(<<"README">>, FALSE, Broken) }

MaxEntries == 2

Archives == UNION {[1..n -> ArchiveEntries] : n \in 0..MaxEntries}

\* ---- extraction: the files it writes ----------------------------------------
\* The path a found binary is written to if extraction followed the entry
\* name: filepath.Join(filepath.Dir(destPath), name).
WritePath_EntryName(destPath, name) == SubSeq(destPath, 1, Len(destPath) - 1) \o name

\* writeFileFromReader(destPath, ...): the path is the caller's.
WritePath(destPath, name) == destPath

\* What writeFileFromReader leaves: nothing when os.OpenFile fails, a
\* truncated file when io.Copy fails, else the entry's contents.
WriteOutcomes == {"ok", "open fails", "copy fails"}
Truncated == "truncated"

\* The loop of extractFromTarGz / extractFromZip from entry i on: the files
\* it writes, in order, and the error it returns.
RECURSIVE ExtractWrites(_, _, _, _, _)
ExtractWrites(es, i, want, destPath, outcome) ==
  IF i > Len(es) THEN [writes |-> <<>>, err |-> "binary not found in archive"]
  ELSE IF SkipsEntry(es[i].name) THEN ExtractWrites(es, i + 1, want, destPath, outcome)
  ELSE IF Base(SanitizeArchivePath(es[i].name)) # want
    THEN ExtractWrites(es, i + 1, want, destPath, outcome)
  ELSE IF es[i].isDir THEN ExtractWrites(es, i + 1, want, destPath, outcome)
  ELSE [writes |-> IF outcome = "open fails" THEN <<>>
                   ELSE <<[path |-> WritePath(destPath, SanitizeArchivePath(es[i].name)),
                           body |-> IF outcome = "ok" THEN es[i].body ELSE Truncated]>>,
        err |-> IF outcome = "ok" THEN "" ELSE outcome]

\* extractBinaryFromArchive(archivePath, destPath) by the suffix of
\* archivePath; opened says whether the archive could be opened and read.
extractBinaryFromArchive(suffix, opened, es, want, destPath, outcome) ==
  IF suffix \notin {"tar.gz", "zip"} THEN [writes |-> <<>>, err |-> "unsupported archive format"]
  ELSE IF ~opened THEN [writes |-> <<>>, err |-> "open archive"]
  ELSE ExtractWrites(es, 1, want, destPath, outcome)

\* The files of a file system after the writes ws: a write creates or
\* replaces the file at its path.
RECURSIVE AfterWrites(_, _)
AfterWrites(fs, ws) ==
  IF ws = <<>> THEN fs
  ELSE AfterWrites({f \in fs : f.path # Head(ws).path} \cup {Head(ws)}, Tail(ws))

\* One call extractBinaryFromArchive(archivePath, newBinPath) of runUpdate
\* in the temp directory of u1, which holds the downloaded archive.
ExtractArchive(suffix, opened, es, outcome) ==
  /\ ~san.ran
  /\ LET destPath == TmpNewPath("u1")
         before == {[path |-> ArchivePath("u1"), body |-> "archive"]}
         out == extractBinaryFromArchive(suffix, opened, es, Want, destPath, outcome)
     IN  san' = [ran |-> TRUE, dest |-> destPath, es |-> es, before |-> before,
                 writes |-> out.writes, after |-> AfterWrites(before, out.writes),
                 err |-> out.err]
  /\ UNCHANGED <<linkVars, importVars, syncVars, updateVars, indexVars, qry, bld, upd, lnk, imt, emb, ini>>

\* acquireUpdateLock: poll TryLock until it succeeds or the timeout expires.
AcquireUpdateLock(u, timedOut) ==
  /\ pc[u] = "start"
  /\ IF TryLock(u)
     THEN /\ lockHolders' = lockHolders \cup {u}
          /\ Goto(u, "fetch")
     ELSE /\ timedOut
          /\ Goto(u, "done")
          /\ UNCHANGED lockHolders
  /\ UNCHANGED <<goos, dirWritable, sameDevice, disk, pre, ret, gateVars, linkVars, importVars, syncVars, indexVars, cliVars>>

\* One round of the loop of acquireUpdateLock: l.TryLock() returned
\* (locked, err) and late says whether time.Now() is after the deadline.
acquireUpdateLock_DeadlineFirst(locked, err, late) ==
  IF err THEN "cannot acquire update lock"
  ELSE IF late THEN "another update is in progress"
  ELSE IF locked THEN "locked"
  ELSE "sleep"

acquireUpdateLock(locked, err, late) ==
  IF err THEN "cannot acquire update lock"
  ELSE IF locked THEN "locked"
  ELSE IF late THEN "another update is in progress"
  ELSE "sleep"

\* acquireUpdateLock, one round: TryLock, the test of the deadline, and
\* the start of time.Sleep.  upd[u] holds the deadline of the call and the
\* time before which the sleep does not return.
PollLock(u, err) ==
  /\ pc[u] = "try"
  /\ LET r == acquireUpdateLock(TryLock(u), err, now > upd[u].deadline) IN
       /\ lockHolders' = IF r = "locked" THEN lockHolders \cup {u} ELSE lockHolders
       /\ Goto(u, IF r = "locked" THEN "unlock" ELSE IF r = "sleep" THEN "sleep" ELSE "done")
       /\ ret' = [ret EXCEPT ![u] = IF r \in {"locked", "sleep"} THEN @ ELSE r]
       /\ upd' = [upd EXCEPT ![u].wake = IF r = "sleep" THEN now + 1 ELSE @,
                             ![u].slept = @ \/ r = "sleep"]
  /\ UNCHANGED <<goos, dirWritable, sameDevice, disk, pre, gateVars, linkVars,
                 importVars, syncVars, indexVars, qry, bld, lnk, imt, emb, ini, san>>

\* time.Sleep(200 * time.Millisecond) returns, not before the time is up.
WakeUp(u) ==
  /\ pc[u] = "sleep"
  /\ now >= upd[u].wake
  /\ Goto(u, "try")
  /\ UNCHANGED <<goos, dirWritable, sameDevice, lockHolders, disk, pre, ret, gateVars,
                 linkVars, importVars, syncVars, indexVars, cliVars>>

\* ---- release and asset ----------------------------------------------------
\* The flags of `axon update` that decide what it does with a release.
UpdateFlags == [check : BOOLEAN, dryRun : BOOLEAN, force : BOOLEAN]
NoFlags == [check |-> FALSE, dryRun |-> FALSE, force |-> FALSE]

\* normalizeReleaseVersion: a leading "v" is dropped unless it is the whole
\* tag.
normalizeReleaseVersion(tag) ==
  IF Len(tag) > 1 /\ Head(tag) = "v" THEN Tail(tag) ELSE tag

Asset(name, url) == [Name |-> name, BrowserDownloadURL |-> url]
NoAsset == Asset(<<>>, "")

\* selectReleaseAsset: the first asset whose name is the expected archive
\* name.
RECURSIVE selectReleaseAsset(_, _)
selectReleaseAsset(assets, expected) ==
  IF assets = <<>> THEN NoAsset
  ELSE IF Head(assets).Name = expected THEN Head(assets)
  ELSE selectReleaseAsset(Tail(assets), expected)

\* What fetchRelease returns: an error, or a release.
NoRelease == [ok |-> FALSE, TagName |-> <<>>, Assets |-> <<>>]
Release(tag, assets) == [ok |-> TRUE, TagName |-> tag, Assets |-> assets]

NewRelease ==
  Release(<<"v", Expected>>,
          <<Asset(OtherName, "url1"), Asset(AssetName, "url2"), Asset(AssetName, "url3")>>)

Releases ==
  {NoRelease, NewRelease,
   Release(<<>>, NewRelease.Assets),
   Release(<<"v", Installed>>, NewRelease.Assets),
   Release(<<Expected>>, <<Asset(OtherName, "url1")>>)}

\* if f.check { ... return nil }; if f.dryRun { ... return nil }
StopsBeforeDownload_Never(f) == FALSE
StopsBeforeDownload(f) == f.check \/ f.dryRun

NoReport == [ran |-> FALSE]

\* What runUpdate printed for --check or --dry-run.
Report(f, rel, kind, asset) ==
  [ran |-> TRUE, flags |-> f, rel |-> rel, kind |-> kind, name |-> asset.Name,
   url |-> IF kind = "dry-run" THEN asset.BrowserDownloadURL ELSE ""]

\* splitRepo .. dry-run: runUpdate returns (an error, up to date, --check,
\* --dry-run) with only unlock() deferred, or the update goes on.  A run
\* with --check or --dry-run leaves what it printed in upd.
FetchRelease(u, f, rel) ==
  /\ pc[u] = "fetch"
  /\ LET asset == selectReleaseAsset(rel.Assets, AssetName)
         kind == IF ~rel.ok \/ rel.TagName = <<>> THEN "error"
                 ELSE IF ~f.force /\ <<Installed>> = normalizeReleaseVersion(rel.TagName)
                   THEN "up to date"
                 ELSE IF asset = NoAsset THEN "error"
                 ELSE IF ~StopsBeforeDownload(f) THEN "update"
                 ELSE IF f.check THEN "check"
                 ELSE "dry-run" IN
       /\ Goto(u, IF kind = "update" THEN "mktemp" ELSE "unlock")
       /\ upd' = IF f.check \/ f.dryRun
                 THEN [upd EXCEPT ![u] = Report(f, rel, kind, asset)]
                 ELSE upd
  /\ UNCHANGED <<goos, dirWritable, sameDevice, lockHolders, disk, pre, ret,
                 gateVars, linkVars, importVars, syncVars, indexVars, qry, bld, lnk, imt, emb, ini, san>>

\* chooseWritableTempBase and os.MkdirTemp
MakeTempDir(u, ok) ==
  /\ pc[u] = "mktemp"
  /\ IF ok
     THEN disk' = [disk EXCEPT ![TmpDir(u)] = "tmpdir"] /\ Goto(u, "download")
     ELSE UNCHANGED disk /\ Goto(u, "unlock")
  /\ UNCHANGED <<goos, dirWritable, sameDevice, lockHolders, pre, ret,
                 gateVars, linkVars, importVars, syncVars, indexVars, cliVars>>

\* downloadWithProgress: os.Create(dest), then the body or an error.
Download(u, ok) ==
  /\ pc[u] = "download"
  /\ disk' = [disk EXCEPT ![ArchivePath(u)] = IF ok THEN "archive" ELSE "partial"]
  /\ Goto(u, IF ok THEN "checksum" ELSE Deferred[1])
  /\ UNCHANGED <<goos, dirWritable, sameDevice, lockHolders, pre, ret,
                 gateVars, linkVars, importVars, syncVars, indexVars, cliVars>>

\* findChecksumAsset and the download in fetchExpectedSHA256: the release has
\* no checksum asset (warn, go on unverified), or the manifest is fetched,
\* or the download fails.
FetchChecksums(u, found, ok, m) ==
  /\ pc[u] = "checksum"
  /\ IF ~found
     THEN /\ verified' = [verified EXCEPT ![u] = "unverified"]
          /\ Goto(u, "extract")
          /\ UNCHANGED sums
     ELSE IF ok
     THEN /\ sums' = [sums EXCEPT ![u] = m]
          /\ Goto(u, "compare")
          /\ UNCHANGED verified
     ELSE /\ Goto(u, Deferred[1])
          /\ UNCHANGED <<sums, verified>>
  /\ UNCHANGED <<goos, dirWritable, sameDevice, lockHolders, disk, pre, ret, unsafeSeen,
                 linkVars, importVars, syncVars, indexVars, cliVars>>

\* parseExpectedSHA256, fileSHA256Hex and strings.EqualFold(expected, actual)
VerifyChecksum(u) ==
  /\ pc[u] = "compare"
  /\ LET expected == ParseExpectedSHA256(sums[u], AssetName) IN
       IF expected # ParseError /\ EqualFold(expected, FileSHA256Hex)
       THEN /\ verified' = [verified EXCEPT ![u] = "verified"]
            /\ Goto(u, "extract")
       ELSE /\ Goto(u, Deferred[1])
            /\ UNCHANGED verified
  /\ sums' = [sums EXCEPT ![u] = <<>>]
  /\ UNCHANGED <<goos, dirWritable, sameDevice, lockHolders, disk, pre, ret, unsafeSeen,
                 linkVars, importVars, syncVars, indexVars, cliVars>>

\* extractBinaryFromArchive: the archive cannot be opened, or the loop over
\* its entries writes the first wanted one to newBinPath, or "binary not
\* found in archive".
ExtractBinary(u, ok, es) ==
  /\ pc[u] = "extract"
  /\ LET binary == IF ok THEN ExtractFrom(es, 1, Want) ELSE Nothing IN
       /\ disk' = [disk EXCEPT ![TmpNewPath(u)] = binary]
       /\ Goto(u, IF binary = Nothing THEN Deferred[1]
                  ELSE IF goos = "windows" THEN "stage" ELSE "swapRemove")
  /\ unsafeSeen' = [unsafeSeen EXCEPT ![u] =
                      ok /\ \E i \in 1..Len(es) : SanitizeArchivePath(es[i].name) = <<>>]
  /\ verified' = [verified EXCEPT ![u] = "none"]
  /\ UNCHANGED <<goos, dirWritable, sameDevice, lockHolders, pre, ret, sums,
                 linkVars, importVars, syncVars, indexVars, cliVars>>

\* Windows: copyFile(newBinPath, stagedNew)
StageNew(u) ==
  /\ pc[u] = "stage"
  /\ IF dirWritable
     THEN disk' = [disk EXCEPT ![StagedPath] = disk[TmpNewPath(u)]] /\ Goto(u, "spawn")
     ELSE UNCHANGED disk /\ Goto(u, Deferred[1])
  /\ unsafeSeen' = [unsafeSeen EXCEPT ![u] = FALSE]
  /\ UNCHANGED <<goos, dirWritable, sameDevice, lockHolders, pre, ret,
                 sums, verified, linkVars, importVars, syncVars, indexVars, cliVars>>

\* Windows: spawnWindowsSwapHelper starts the helper; runUpdate returns.
SpawnWindowsSwapHelper(u) ==
  /\ pc[u] = "spawn"
  /\ pc' = [pc EXCEPT ![u] = Deferred[1], ![HelperOf(u)] = "lock"]
  /\ ret' = [ret EXCEPT ![HelperOf(u)] = ""]
  /\ UNCHANGED <<goos, dirWritable, sameDevice, lockHolders, disk, pre,
                 gateVars, linkVars, importVars, syncVars, indexVars, cliVars>>

\* defer os.RemoveAll(tmpDir)
RemoveTempDir(u) ==
  /\ pc[u] = "removeTmp"
  /\ disk' = [disk EXCEPT ![TmpDir(u)] = Nothing, ![ArchivePath(u)] = Nothing,
                      ![TmpNewPath(u)] = Nothing]
  /\ Goto(u, Deferred[2])
  /\ unsafeSeen' = [unsafeSeen EXCEPT ![u] = FALSE]
  /\ UNCHANGED <<goos, dirWritable, sameDevice, lockHolders, pre, ret,
                 sums, verified, linkVars, importVars, syncVars, indexVars, cliVars>>

\* defer unlock(): l.Unlock()
Unlock(p) ==
  /\ pc[p] = "unlock"
  /\ lockHolders' = lockHolders \ {p}
  /\ Goto(p, "exit")
  /\ UNCHANGED <<goos, dirWritable, sameDevice, disk, pre, ret, gateVars, linkVars, importVars, syncVars, indexVars, cliVars>>

\* The process ends.
Exit(p) ==
  /\ pc[p] = "exit"
  /\ Goto(p, "done")
  /\ UNCHANGED <<goos, dirWritable, sameDevice, lockHolders, disk, pre, ret,
                 gateVars, linkVars, importVars, syncVars, indexVars, cliVars>>

\* runSelfUpdateSwap: one l.TryLock(); an error when the lock is held.
HelperLock(h) ==
  /\ h \in Helpers
  /\ pc[h] = "lock"
  /\ IF TryLock(h)
     THEN /\ lockHolders' = lockHolders \cup {h}
          /\ Goto(h, "wait")
          /\ UNCHANGED ret
     ELSE /\ Goto(h, "done")
          /\ ret' = [ret EXCEPT ![h] = "another update is in progress"]
          /\ UNCHANGED lockHolders
  /\ UNCHANGED <<goos, dirWritable, sameDevice, disk, pre, gateVars, linkVars, importVars, syncVars, indexVars, cliVars>>

\* runSelfUpdateSwap: wait until the parent pid is gone, or time out.
HelperWait(h, timedOut) ==
  /\ h \in Helpers
  /\ pc[h] = "wait"
  /\ IF pc[ParentOf(h)] = "done"
     THEN Goto(h, "swapRemove") /\ UNCHANGED ret
     ELSE /\ timedOut
          /\ Goto(h, "unlock")
          /\ ret' = [ret EXCEPT ![h] = "timed out"]
  /\ UNCHANGED <<goos, dirWritable, sameDevice, lockHolders, disk, pre,
                 gateVars, linkVars, importVars, syncVars, indexVars, cliVars>>

\* installWithRollback / runSelfUpdateSwap: remove a stale backup.
SwapRemoveStale(p) ==
  /\ pc[p] = "swapRemove"
  /\ disk' = Removed(BackupPath)
  /\ pre' = [pre EXCEPT ![p] = disk[CurrentPath]]
  /\ Goto(p, "swapBackup")
  /\ unsafeSeen' = [unsafeSeen EXCEPT ![p] = FALSE]
  /\ UNCHANGED <<goos, dirWritable, sameDevice, lockHolders, ret, sums, verified, linkVars, importVars, syncVars, indexVars, cliVars>>

\* os.Rename(currentPath, backupPath)
SwapBackup(p) ==
  /\ pc[p] = "swapBackup"
  /\ IF RenameFails(CurrentPath, BackupPath)
     THEN /\ ret' = [ret EXCEPT ![p] = "error"]
          /\ Goto(p, AfterSwap(p))
          /\ UNCHANGED disk
     ELSE /\ disk' = Renamed(CurrentPath, BackupPath)
          /\ Goto(p, "swapNew")
          /\ UNCHANGED ret
  /\ UNCHANGED <<goos, dirWritable, sameDevice, lockHolders, pre, gateVars, linkVars, importVars, syncVars, indexVars, cliVars>>

\* os.Rename(newPath, currentPath)
SwapNew(p) ==
  /\ pc[p] = "swapNew"
  /\ IF RenameFails(NewPathOf(p), CurrentPath)
     THEN Goto(p, "rollback") /\ UNCHANGED disk
     ELSE disk' = Renamed(NewPathOf(p), CurrentPath) /\ Goto(p, "verify")
  /\ UNCHANGED <<goos, dirWritable, sameDevice, lockHolders, pre, ret,
                 gateVars, linkVars, importVars, syncVars, indexVars, cliVars>>

\* The rollback: _ = os.Rename(backupPath, currentPath); return the error.
RestoreBackup_Skipped == disk
RestoreBackup ==
  IF RenameFails(BackupPath, CurrentPath) THEN disk ELSE Renamed(BackupPath, CurrentPath)

Rollback(p) ==
  /\ pc[p] = "rollback"
  /\ disk' = RestoreBackup
  /\ ret' = [ret EXCEPT ![p] = "error"]
  /\ Goto(p, AfterSwap(p))
  /\ UNCHANGED <<goos, dirWritable, sameDevice, lockHolders, pre, gateVars, linkVars, importVars, syncVars, indexVars, cliVars>>

\* verifyBinaryVersion(currentPath, expectedVersion)
VerifyBinaryVersion(p) ==
  /\ pc[p] = "verify"
  /\ Goto(p, IF disk[CurrentPath] = Expected THEN "swapCleanup" ELSE "aside")
  /\ UNCHANGED <<goos, dirWritable, sameDevice, lockHolders, disk, pre, ret,
                 gateVars, linkVars, importVars, syncVars, indexVars, cliVars>>

\* _ = os.Rename(currentPath, <failed>)
MoveAside(p) ==
  /\ pc[p] = "aside"
  /\ disk' = IF RenameFails(CurrentPath, FailedPath) THEN disk
           ELSE Renamed(CurrentPath, FailedPath)
  /\ Goto(p, "rollback")
  /\ UNCHANGED <<goos, dirWritable, sameDevice, lockHolders, pre, ret,
                 gateVars, linkVars, importVars, syncVars, indexVars, cliVars>>

\* os.Remove(backupPath) / cleanupBackup(backup); return nil
SwapCleanup(p) ==
  /\ pc[p] = "swapCleanup"
  /\ disk' = Removed(BackupPath)
  /\ ret' = [ret EXCEPT ![p] = "nil"]
  /\ Goto(p, AfterSwap(p))
  /\ UNCHANGED <<goos, dirWritable, sameDevice, lockHolders, pre, gateVars, linkVars, importVars, syncVars, indexVars, cliVars>>

(***************************************************************************)
(* Semantic index (internal/search/index: Write, Load, BuildUserIndex,     *)
(* AtomicSwap; cmd: runSearchIndex, selectSemanticIndex)                   *)
(***************************************************************************)

\* Documents in the order sort.Slice leaves them (by ID), and the two
\* builds whose output is told apart: the one that wrote the index in place
\* and the rebuild.
DocOrder == <<"s1", "s2">>
Docs == {DocOrder[i] : i \in 1..Len(DocOrder)}
Gens == {"old", "new"}

MaxDim == 2
MaxLines == 4

\* The float32 bit pattern the provider returns for component k of the
\* embedding of document d in build g (1.0, 2.0, 3.0, 4.0, plus k - 1).
FloatBits(d, g, k) ==
  (CASE d = "s1" /\ g = "old" -> 1065353216
     [] d = "s1" /\ g = "new" -> 1073741824
     [] d = "s2" /\ g = "old" -> 1077936128
     [] OTHER -> 1082130432) + (k - 1)

\* prov.Embed
Embed(d, g, dim) == [k \in 1..dim |-> FloatBits(d, g, k)]

\* SkillToEntry; long: the description is so long that the entry's JSON
\* line exceeds bufio.MaxScanTokenSize.
SkillToEntry(d, h, g, long) == [id |-> d, text_hash |-> h, gen |-> g, long |-> long]

\* TextHash(CanonicalText(s)): 1 for the text the document had when the
\* earlier index was built, 2 for a document edited since (those in changed).
TextHash(d, changed) == IF d \in changed THEN 2 ELSE 1

\* json.Marshal of an entry followed by '\n', and the other lines a skills
\* file on disk may hold.
JsonLine(e) == [kind |-> "json", entry |-> e]
NoEntry == [id |-> "", text_hash |-> 0, gen |-> "", long |-> FALSE]
GarbageLine == [kind |-> "garbage", entry |-> NoEntry]
EmptyLine == [kind |-> "empty", entry |-> NoEntry]

\* json.MarshalIndent of a manifest, and a manifest file that is not JSON.
JsonManifest(m) == [kind |-> "json", m |-> m]
\* Provider.ModelID(): "openai:" + model.
ModelID(model) == <<"openai", model>>
NoModel == <<>>
BuildModel == ModelID("m1")

GarbageManifest ==
  [kind |-> "garbage", m |-> [dim |-> 0, dimHi |-> 0, gen |-> "", model_id |-> NoModel]]

\* A Go int (64 bits, two's complement) of the form hi * 2^62 + lo with lo
\* small: the dim of a manifest is dimHi * 2^62 + dim, and dimHi is 0 in
\* every manifest the builder writes.
GoInt(hi, lo) == [hi |-> hi % 4, lo |-> lo]
Small(n) == GoInt(0, n)
DimOf(m) == GoInt(m.dimHi, m.dim)

\* a * b in Go: the product modulo 2^64.
Times(a, b) == GoInt(a.hi * b.lo + b.hi * a.lo, a.lo * b.lo)

\* a <= 0 for a Go int: the sign bit is the upper bit of hi.
NotPositive(a) == a.hi >= 2 \/ (a.hi = 0 /\ a.lo <= 0)

\* binary.Write(vf, binary.LittleEndian, vectors): four bytes per float32.
LittleEndian(v) ==
  <<v % 256, (v \div 256) % 256, (v \div 65536) % 256, (v \div 16777216) % 256>>

RECURSIVE EncodeVectors(_)
EncodeVectors(vs) ==
  IF vs = <<>> THEN <<>> ELSE LittleEndian(Head(vs)) \o EncodeVectors(Tail(vs))

\* binary.Read(io.LimitReader(f, expected), binary.LittleEndian, out)
DecodeVectors(bytes, nFloats) ==
  [i \in 1..nFloats |->
     bytes[4 * i - 3] + 256 * bytes[4 * i - 2] + 65536 * bytes[4 * i - 1]
       + 16777216 * bytes[4 * i]]

NoDir == [manifest |-> GarbageManifest, skills |-> <<>>, vectors |-> <<>>, exists |-> FALSE]

\* Write: the three files of an index directory, or an error.
\* Write without the test of the vector length.
Write_Unchecked(manifest, skills, vectors) ==
  IF manifest.dim <= 0 \/ Len(skills) = 0
  THEN NoDir
  ELSE [manifest |-> JsonManifest(manifest),
        skills |-> [i \in 1..Len(skills) |-> JsonLine(skills[i])],
        vectors |-> EncodeVectors(vectors),
        exists |-> TRUE]

Write(manifest, skills, vectors) ==
  IF manifest.dim <= 0 \/ Len(skills) = 0 \/ Len(vectors) # Len(skills) * manifest.dim
  THEN NoDir
  ELSE [manifest |-> JsonManifest(manifest),
        skills |-> [i \in 1..Len(skills) |-> JsonLine(skills[i])],
        vectors |-> EncodeVectors(vectors),
        exists |-> TRUE]

\* A value read from a file, or an error.
Ok(v) == [ok |-> TRUE, v |-> v, panic |-> FALSE]
Failed == [ok |-> FALSE, v |-> <<>>, panic |-> FALSE]

\* A run-time panic: neither a value nor an error is returned.
Panicked == [ok |-> FALSE, v |-> <<>>, panic |-> TRUE]

\* Load, first part: os.ReadFile and json.Unmarshal of the manifest and the
\* dim check.
LoadManifest(dir) ==
  IF ~dir.exists THEN Failed
  ELSE IF dir.manifest.kind # "json" THEN Failed
  ELSE IF NotPositive(DimOf(dir.manifest.m)) THEN Failed
  ELSE Ok(dir.manifest.m)

\* loadSkills from line i on: empty lines are passed over, a line that is
\* not JSON or exceeds the scanner's buffer is an error.
RECURSIVE LoadSkillsFrom(_, _)
LoadSkillsFrom(lines, i) ==
  IF i > Len(lines) THEN Ok(<<>>)
  ELSE IF lines[i].kind = "empty" THEN LoadSkillsFrom(lines, i + 1)
  ELSE IF lines[i].kind # "json" THEN Failed
  ELSE IF lines[i].entry.long THEN Failed
  ELSE LET rest == LoadSkillsFrom(lines, i + 1) IN
         IF rest.ok THEN Ok(<<lines[i].entry>> \o rest.v) ELSE Failed

LoadSkills(dir) == IF ~dir.exists THEN Failed ELSE LoadSkillsFrom(dir.skills, 1)

\* loadVectors: the size checks in Go int arithmetic, make([]float32,
\* nFloats), which panics for a length that is negative or beyond what can
\* be allocated, then the floats.
LoadVectors(dir, nSkills, dim) ==
  LET expected == Times(Times(Small(nSkills), dim), Small(4))
      nFloats == Times(Small(nSkills), dim) IN
  IF ~dir.exists THEN Failed
  ELSE IF Len(dir.vectors) % 4 # 0 THEN Failed
  ELSE IF expected # Small(Len(dir.vectors)) THEN Failed
  ELSE IF nFloats.hi # 0 THEN Panicked
  ELSE Ok(DecodeVectors(dir.vectors, nFloats.lo))

\* sort.Slice(skills, by ID) of a set of documents
SortedDocs(D) == SelectSeq(DocOrder, LAMBDA d : d \in D)

NoIndex ==
  [ok |-> FALSE, panic |-> FALSE,
   Manifest |-> [dim |-> 0, dimHi |-> 0, gen |-> "", model_id |-> NoModel],
   Skills |-> <<>>, Vectors |-> <<>>]

\* Load did not return.
Crashed == [NoIndex EXCEPT !.panic = TRUE]

\* return &Index{Manifest: m, Skills: skills, Vectors: vectors}, nil
Index(m, skills, vectors) ==
  [ok |-> TRUE, panic |-> FALSE, Manifest |-> m, Skills |-> skills, Vectors |-> vectors]

RECURSIVE EmbedAll(_, _, _)
EmbedAll(ds, g, dim) ==
  IF ds = <<>> THEN <<>> ELSE Embed(Head(ds), g, dim) \o EmbedAll(Tail(ds), g, dim)

\* BuildUserIndex for build g: the discovered documents D (those in long
\* with an over-long description), embedded with dimension dim, written
\* with Write.
Built(D, long, dim, g) ==
  LET ds == SortedDocs(D) IN
    IF ds = <<>> THEN NoDir
    ELSE Write([dim |-> dim, dimHi |-> 0, gen |-> g, model_id |-> BuildModel],
               [i \in 1..Len(ds) |-> SkillToEntry(ds[i], TextHash(ds[i], {}), g, ds[i] \in long)],
               EmbedAll(ds, g, dim))

\* Load of a directory read in one go.
Load(dir) ==
  LET m == LoadManifest(dir) IN
    IF ~m.ok THEN NoIndex
    ELSE LET sk == LoadSkills(dir) IN
      IF ~sk.ok THEN NoIndex
      ELSE LET v == LoadVectors(dir, Len(sk.v), DimOf(m.v)) IN
        IF v.ok THEN Index(m.v, sk.v, v.v)
        ELSE IF v.panic THEN Crashed
        ELSE NoIndex

\* The vector stored for entry i of a loaded index.
VectorOf(old, i) ==
  SubSeq(old.Vectors, (i - 1) * old.Manifest.dim + 1, i * old.Manifest.dim)

\* The entries of the index loaded from opts.OutDir that go into the reuse
\* maps: none when the load failed or with Force, else those whose vector
\* lies within old.Vectors.
Reusable(old, force) ==
  IF ~old.ok \/ force \/ old.Manifest.dimHi # 0 THEN {}
  ELSE {i \in 1..Len(old.Skills) : i * old.Manifest.dim <= Len(old.Vectors)}

\* The entry of the reuse map for id d (a later line replaces an earlier
\* one with the same id), or 0.
ReuseOf(old, force, d) ==
  LET hit == {i \in Reusable(old, force) : old.Skills[i].id = d} IN
    IF hit = {} THEN 0 ELSE CHOOSE i \in hit : \A j \in hit : j <= i

NoBuild == [entries |-> <<>>, vectors |-> <<>>, dim |-> 0, embedded |-> {}, ok |-> TRUE]

\* One round of the loop over the discovered documents: the entry and the
\* vector of an earlier index are kept when id and text hash are equal,
\* otherwise prov.Embed is called (provDim: the length of what it returns, 0
\* for an error).
BuildStep(acc, d, old, changed, long, force, provDim, g) ==
  LET h == TextHash(d, changed)
      kept == ReuseOf(old, force, d) IN
    IF ~acc.ok THEN acc
    ELSE IF kept # 0 /\ old.Skills[kept].text_hash = h /\ h # 0
      THEN [acc EXCEPT !.entries = Append(@, old.Skills[kept]),
                       !.vectors = @ \o VectorOf(old, kept),
                       !.dim = IF @ = 0 THEN old.Manifest.dim ELSE @]
    ELSE IF provDim = 0 \/ acc.dim \notin {0, provDim}
      THEN [acc EXCEPT !.ok = FALSE, !.embedded = @ \cup {d}]
    ELSE [acc EXCEPT !.entries = Append(@, SkillToEntry(d, h, g, d \in long)),
                     !.vectors = @ \o Embed(d, g, provDim),
                     !.dim = provDim,
                     !.embedded = @ \cup {d}]

\* The loop; dims[d] is the length of what prov.Embed returns for document d.
RECURSIVE BuildLoop(_, _, _, _, _, _, _, _)
BuildLoop(acc, ds, old, changed, long, force, dims, g) ==
  IF ds = <<>> THEN acc
  ELSE BuildLoop(BuildStep(acc, Head(ds), old, changed, long, force, dims[Head(ds)], g),
                 Tail(ds), old, changed, long, force, dims, g)

\* BuildUserIndex(prov, opts) for build g: what it writes to opts.OutDir and
\* the documents it called the provider for.
BuildIndexFor(outDir, D, long, changed, force, dims, g, model) ==
  LET ds == SortedDocs(D)
      b == BuildLoop(NoBuild, ds, Load(outDir), changed, long, force, dims, g) IN
    [dir |-> IF ds = <<>> \/ ~b.ok THEN NoDir
             ELSE Write([dim |-> b.dim, dimHi |-> 0, gen |-> g, model_id |-> model],
                        b.entries, b.vectors),
     embedded |-> IF ds = <<>> THEN {} ELSE b.embedded]

\* The same for a provider of model BuildModel whose vectors all have
\* length provDim.
BuildIndex(outDir, D, long, changed, force, provDim, g) ==
  BuildIndexFor(outDir, D, long, changed, force, [d \in Docs |-> provDim], g, BuildModel)

NoBuildRun == [ran |-> FALSE]

\* runSearchIndex up to AtomicSwap: os.MkdirTemp and BuildUserIndex with
\* OutDir the new, empty temp directory.
BuildUserIndex(D, long, dim, changed, force) ==
  /\ buildPc = "idle"
  /\ LET tmpDir == NoDir
         out == BuildIndex(tmpDir, D, long, changed, force, dim, "new") IN
       /\ tmpIdx' = out.dir
       /\ builtIdx' = out.dir
       /\ bld' = [ran |-> TRUE, docs |-> D, changed |-> changed, force |-> force,
                  embedded |-> out.embedded, swapErr |-> "none", rollback |-> "none"]
       /\ buildPc' = IF out.dir.exists THEN "removeBackup" ELSE "removeTmp"
  /\ UNCHANGED <<userDir, bakDir, initialIdx, rdPc, rdM, rdS, rdOut,
                 linkVars, importVars, syncVars, updateVars, qry, upd, lnk, imt, emb, ini, san>>

\* BuildUserIndex(prov, opts) with opts.OutDir = <axon>/search, the directory
\* that may hold an earlier index: the index is written over it.  model is
\* the model of prov and dims[d] the length of its vector for document d.
BuildInto(D, changed, dims, force, model) ==
  /\ buildPc = "idle"
  /\ LET out == BuildIndexFor(userDir, D, {}, changed, force, dims, "new", ModelID(model)) IN
       /\ userDir' = IF out.dir.exists THEN out.dir ELSE userDir
       /\ builtIdx' = out.dir
       /\ bld' = [ran |-> TRUE, docs |-> D, changed |-> changed, force |-> force,
                  embedded |-> out.embedded, swapErr |-> "none", rollback |-> "none",
                  dims |-> dims, model |-> ModelID(model), old |-> Load(userDir)]
  /\ buildPc' = "done"
  /\ UNCHANGED <<bakDir, tmpIdx, initialIdx, rdPc, rdM, rdS, rdOut,
                 linkVars, importVars, syncVars, updateVars, qry, upd, lnk, imt, emb, ini, san>>

\* AtomicSwap: _ = os.RemoveAll(backup)
IndexRemoveBackup ==
  /\ buildPc = "removeBackup"
  /\ bakDir' = NoDir
  /\ buildPc' = "moveOld"
  /\ UNCHANGED <<userDir, tmpIdx, builtIdx, initialIdx, rdPc, rdM, rdS, rdOut,
                 linkVars, importVars, syncVars, updateVars, cliVars>>

\* AtomicSwap: if destDir exists, os.Rename(destDir, backup)
IndexMoveOld ==
  /\ buildPc = "moveOld"
  /\ IF userDir.exists
     THEN userDir' = NoDir /\ bakDir' = userDir
     ELSE UNCHANGED <<userDir, bakDir>>
  /\ buildPc' = "moveNew"
  /\ UNCHANGED <<tmpIdx, builtIdx, initialIdx, rdPc, rdM, rdS, rdOut,
                 linkVars, importVars, syncVars, updateVars, cliVars>>

\* AtomicSwap: os.Rename(srcDir, destDir); both are under <axon>, and
\* destDir has just been moved away, so the rename succeeds.
IndexMoveNew ==
  /\ buildPc = "moveNew"
  /\ userDir' = tmpIdx
  /\ tmpIdx' = NoDir
  /\ buildPc' = "cleanup"
  /\ UNCHANGED <<bakDir, builtIdx, initialIdx, rdPc, rdM, rdS, rdOut,
                 linkVars, importVars, syncVars, updateVars, cliVars>>

\* AtomicSwap: os.Rename(destDir, backup) fails; the error is returned.
IndexMoveOldFails ==
  /\ buildPc = "moveOld"
  /\ userDir.exists
  /\ bld' = [bld EXCEPT !.swapErr = "moveOld"]
  /\ buildPc' = "removeTmp"
  /\ UNCHANGED <<userDir, bakDir, tmpIdx, builtIdx, initialIdx, rdPc, rdM, rdS, rdOut,
                 linkVars, importVars, syncVars, updateVars, qry, upd, lnk, imt, emb, ini, san>>

\* The rollback of AtomicSwap without the rename.
SwapRollback_Skipped(bak, ok) == [user |-> NoDir, bak |-> bak, did |-> "none"]

\* The rollback of AtomicSwap: if backup exists, _ = os.Rename(backup,
\* destDir), whose error is dropped.
SwapRollback(bak, ok) ==
  IF ~bak.exists THEN [user |-> NoDir, bak |-> bak, did |-> "none"]
  ELSE IF ok THEN [user |-> bak, bak |-> NoDir, did |-> "ok"]
  ELSE [user |-> NoDir, bak |-> bak, did |-> "failed"]

\* AtomicSwap: os.Rename(srcDir, destDir) fails; rollback, and the error is
\* returned.
IndexMoveNewFails(rollbackOk) ==
  /\ buildPc = "moveNew"
  /\ LET r == SwapRollback(bakDir, rollbackOk) IN
       /\ userDir' = r.user
       /\ bakDir' = r.bak
       /\ bld' = [bld EXCEPT !.swapErr = "moveNew", !.rollback = r.did]
  /\ buildPc' = "removeTmp"
  /\ UNCHANGED <<tmpIdx, builtIdx, initialIdx, rdPc, rdM, rdS, rdOut,
                 linkVars, importVars, syncVars, updateVars, qry, upd, lnk, imt, emb, ini, san>>

\* AtomicSwap: _ = os.RemoveAll(backup); return nil
IndexCleanup ==
  /\ buildPc = "cleanup"
  /\ bakDir' = NoDir
  /\ buildPc' = "removeTmp"
  /\ UNCHANGED <<userDir, tmpIdx, builtIdx, initialIdx, rdPc, rdM, rdS, rdOut,
                 linkVars, importVars, syncVars, updateVars, cliVars>>

\* runSearchIndex: defer os.RemoveAll(tmpDir)
IndexRemoveTmp ==
  /\ buildPc = "removeTmp"
  /\ tmpIdx' = NoDir
  /\ buildPc' = "done"
  /\ UNCHANGED <<userDir, bakDir, builtIdx, initialIdx, rdPc, rdM, rdS, rdOut,
                 linkVars, importVars, syncVars, updateVars, cliVars>>

\* Load(userDir), manifest: read, parse, check dim.
ReadManifest ==
  /\ rdPc = "idle"
  /\ LET r == LoadManifest(userDir) IN
       IF r.ok
       THEN rdM' = r.v /\ rdPc' = "skills" /\ UNCHANGED rdOut
       ELSE rdOut' = NoIndex /\ rdPc' = "done" /\ UNCHANGED rdM
  /\ UNCHANGED <<userDir, bakDir, tmpIdx, buildPc, builtIdx, initialIdx, rdS,
                 linkVars, importVars, syncVars, updateVars, cliVars>>

\* Load(userDir), loadSkills
ReadSkills ==
  /\ rdPc = "skills"
  /\ LET r == LoadSkills(userDir) IN
       IF r.ok
       THEN rdS' = r.v /\ rdPc' = "vectors" /\ UNCHANGED rdOut
       ELSE rdOut' = NoIndex /\ rdPc' = "done" /\ UNCHANGED rdS
  /\ UNCHANGED <<userDir, bakDir, tmpIdx, buildPc, builtIdx, initialIdx, rdM,
                 linkVars, importVars, syncVars, updateVars, cliVars>>

\* Load(userDir), loadVectors, and the Index returned
ReadVectors ==
  /\ rdPc = "vectors"
  /\ LET r == LoadVectors(userDir, Len(rdS), DimOf(rdM)) IN
       rdOut' = IF r.ok THEN Index(rdM, rdS, r.v)
                ELSE IF r.panic THEN Crashed
                ELSE NoIndex
  /\ rdPc' = "done"
  /\ UNCHANGED <<userDir, bakDir, tmpIdx, buildPc, builtIdx, initialIdx, rdM, rdS,
                 linkVars, importVars, syncVars, updateVars, cliVars>>

\* The reader is done with the index; a later search loads again.
NextLoad ==
  /\ rdPc = "done"
  /\ rdPc' = "idle"
  /\ rdM' = NoIndex.Manifest
  /\ rdS' = <<>>
  /\ rdOut' = NoIndex
  /\ UNCHANGED <<userDir, bakDir, tmpIdx, buildPc, builtIdx, initialIdx,
                 linkVars, importVars, syncVars, updateVars, cliVars>>

\* Index directories whose manifest carries a dim of 2^62 (+ 0 or 1), with
\* one to four skills lines and a vectors file of 0 or 16 bytes.
HugeDimDirs ==
  {[manifest |-> JsonManifest([dim |-> lo, dimHi |-> 1, gen |-> "old", model_id |-> BuildModel]),
    skills |-> [i \in 1..n |-> JsonLine(SkillToEntry(DocOrder[1 + (i % 2)], 1, "old", FALSE))],
    vectors |-> [i \in 1..bytes |-> 0],
    exists |-> TRUE] : lo \in 0..1, n \in 1..MaxLines, bytes \in {0, 16}}

(***************************************************************************)
(* Search query engine: `axon search <query>` (cmd search)                 *)
(***************************************************************************)

\* embeddings.LoadConfig and NewFromConfig: AXON_EMBEDDINGS_PROVIDER unset or
\* unsupported is an error, "openai" gives a provider for the configured
\* model.
EmbeddingsConfigs ==
  {[Provider |-> p, Model |-> m] : p \in {"", "openai", "other"}, m \in {"m1", "m2"}}

NewFromConfig(cfg) ==
  IF cfg.Provider = "openai" THEN Ok(ModelID(cfg.Model)) ELSE Failed

\* What prov.Embed returns for the query: an error, or a vector of some
\* length.
NoVector == 0
EmbedResults == {NoVector} \cup (1..MaxDim)

\* selectSemanticIndex: <axon>/search first, <hub>/search when that load
\* returned an error.  A Load that panics ends the command at once.
SelectFrom(user, hubIdx, first) ==
  LET u == Load(IF first = "user" THEN user ELSE hubIdx)
      h == Load(IF first = "user" THEN hubIdx ELSE user)
      second == IF first = "user" THEN "hub" ELSE "user" IN
    IF u.ok \/ u.panic THEN [idx |-> u, from |-> first, tried |-> <<first>>]
    ELSE [idx |-> h, from |-> second, tried |-> <<first, second>>]

selectSemanticIndex_HubFirst(user, hubIdx) == SelectFrom(user, hubIdx, "hub")

selectSemanticIndex(user, hubIdx) == SelectFrom(user, hubIdx, "user")

\* semanticSearch: the steps it took and the error it returned ("" for
\* results).  hits: some stored vector scores at least the minimum score.
semanticSearch(user, hubIdx, cfg, embed, hits) ==
  LET sel == selectSemanticIndex(user, hubIdx)
      prov == NewFromConfig(cfg)
      base == [tried |-> sel.tried, from |-> sel.from, panic |-> FALSE,
               steps |-> <<"select">>, err |-> ""]
      At(steps, err) == [base EXCEPT !.steps = steps, !.err = err] IN
    IF sel.idx.panic THEN [base EXCEPT !.panic = TRUE, !.from = "none"]
    ELSE IF ~sel.idx.ok THEN [base EXCEPT !.err = "no valid semantic index found", !.from = "none"]
    ELSE IF ~prov.ok THEN At(<<"select", "provider">>, "provider")
    ELSE IF prov.v # sel.idx.Manifest.model_id
      THEN At(<<"select", "provider", "gate">>, "embeddings model mismatch")
    ELSE IF embed = NoVector
      THEN At(<<"select", "provider", "gate", "embed">>, "embed")
    ELSE IF Small(embed) # DimOf(sel.idx.Manifest)
      THEN At(<<"select", "provider", "gate", "embed", "dim">>, "embedding dim mismatch")
    ELSE IF ~hits \/ Len(sel.idx.Skills) = 0
      THEN At(<<"select", "provider", "gate", "embed", "dim", "score">>,
              "no semantic results above min score")
    ELSE At(<<"select", "provider", "gate", "embed", "dim", "score">>, "")

NoSemantic ==
  [tried |-> <<>>, from |-> "none", panic |-> FALSE, steps |-> <<>>, err |-> ""]

\* What one run of the command did: the semantic part, whether keyword
\* search ran, what was printed and the error the command returned.
SearchOutcome(sem, keyword, shown, err) ==
  [sem |-> sem, keyword |-> keyword, shown |-> shown, err |-> err]

\* runSearchKeyword: DiscoverDocuments, KeywordSearch, print.
runSearchKeyword(sem, kwOk) ==
  IF kwOk THEN SearchOutcome(sem, TRUE, "keyword", "")
  ELSE SearchOutcome(sem, TRUE, "none", "discover")

\* runSearch for a command line without --index.
runSearch(in) ==
  LET sem == semanticSearch(in.user, in.hubIdx, in.cfg, in.embed, in.hits) IN
    IF ~in.cfgOk THEN SearchOutcome(NoSemantic, FALSE, "none", "config")
    ELSE IF ~in.hasQuery THEN SearchOutcome(NoSemantic, FALSE, "help", "")
    ELSE IF in.keyword THEN runSearchKeyword(NoSemantic, in.kwOk)
    ELSE IF sem.panic THEN SearchOutcome(sem, FALSE, "none", "panic")
    ELSE IF in.semantic THEN
      SearchOutcome(sem, FALSE, IF sem.err = "" THEN "semantic" ELSE "none", sem.err)
    ELSE IF sem.err = "" THEN SearchOutcome(sem, FALSE, "semantic", "")
    ELSE runSearchKeyword(sem, in.kwOk)

\* The index directories a search may find at <axon>/search and
\* <hub>/search: none, built for either model and dimension, damaged, and
\* with a manifest whose dim is 2^62.
SearchDirs ==
  {NoDir}
  \cup {[Built({"s1"}, {}, dim, "old") EXCEPT !.manifest.m.model_id = ModelID(m)] :
          dim \in 1..MaxDim, m \in {"m1", "m2"}}
  \cup {[Built({"s1"}, {}, 1, "old") EXCEPT !.manifest = GarbageManifest]}
  \cup {d \in HugeDimDirs : d.manifest.m.dim = 0 /\ Len(d.vectors) = 0
                             /\ Len(d.skills) \in {1, MaxLines}}

SearchInputs ==
  [keyword : BOOLEAN, semantic : BOOLEAN, hasQuery : BOOLEAN, cfgOk : BOOLEAN,
   user : SearchDirs, hubIdx : SearchDirs, cfg : EmbeddingsConfigs,
   embed : EmbedResults, hits : BOOLEAN, kwOk : BOOLEAN]

NoQuery == [ran |-> FALSE]

\* One `axon search [flags] [query]`.
Search(in) ==
  /\ ~qry.ran
  /\ qry' = [ran |-> TRUE, in |-> in, out |-> runSearch(in)]
  /\ UNCHANGED <<linkVars, importVars, syncVars, updateVars, indexVars, bld, upd, lnk, imt, emb, ini, san>>

(***************************************************************************)
(* Embeddings client: the OpenAI-compatible provider (embeddings/openai.go) *)
(***************************************************************************)

MaxCalls == 3

NoProvider == [made |-> FALSE]

\* NewOpenAI: the provider keeps the configured model and key; dim is 0.
NewOpenAI(model, apiKey) ==
  [made |-> TRUE, model |-> model, apiKey |-> apiKey, dim |-> 0, log |-> <<>>]

\* The lengths of the embedding in a response of the endpoint; NoVector is a
\* failed request, a non-2xx status, an unparsable body or an empty
\* embedding.
Responses == {NoVector} \cup (1..(MaxDim + 1))

\* openAIProvider.Embed: what it returns (out is the length of the vector,
\* NoVector with an error) and p.dim afterwards.  `asked` says whether the
\* request was sent.
EmbedCall(p, text, resp) ==
  IF p.model = "" \/ p.apiKey = "" \/ text = ""
    THEN [asked |-> FALSE, resp |-> NoVector, out |-> NoVector, err |-> TRUE, dim |-> p.dim]
  ELSE IF resp = NoVector
    THEN [asked |-> TRUE, resp |-> resp, out |-> NoVector, err |-> TRUE, dim |-> p.dim]
  ELSE [asked |-> TRUE, resp |-> resp, out |-> resp, err |-> FALSE, dim |-> resp]

OpenAIEmbed(text, resp) ==
  /\ emb.made
  /\ Len(emb.log) < MaxCalls
  /\ LET r == EmbedCall(emb, text, resp)
     IN  emb' = [emb EXCEPT !.dim = r.dim, !.log = Append(@, r)]
  /\ UNCHANGED <<linkVars, importVars, syncVars, updateVars, indexVars, qry, bld, upd, lnk, imt, ini, san>>

(***************************************************************************)
(* Bootstrap: `axon init [repo-url] [--upstream]` (cmd init, config)       *)
(***************************************************************************)

\* A text file: whether it exists, its lines, and whether the last line is
\* terminated by a newline.
NoFile == [exists |-> FALSE, lines |-> <<>>, nl |-> FALSE]
File(lines) == [exists |-> TRUE, lines |-> lines, nl |-> TRUE]

defaultGitignore ==
  File(<<".DS_Store", "Thumbs.db", "*.tmp", "*.bak", "*~", ".idea/", ".vscode/">>)

defaultGitattributes == File(<<"* text=auto eol=lf">>)

\* The body EnsureDotEnvTemplate writes.
DotEnvTemplate ==
  File(<<"AXON_EMBEDDINGS_PROVIDER=", "AXON_EMBEDDINGS_MODEL=", "AXON_EMBEDDINGS_API_KEY=">>)

\* A file somebody else wrote: one line without a final newline.
UserFile == [exists |-> TRUE, lines |-> <<"user">>, nl |-> FALSE]

\* axon.yaml: absent, as DefaultConfig gives it (read-write, or read-only
\* after --upstream), with an empty upstream, or not YAML.
YamlKinds == {"none", "read-write", "read-only", "no-upstream", "invalid"}

\* The part of the home directory `axon init` deals with.
\*   axon    <home>/.axon exists          yaml    <home>/.axon/axon.yaml
\*   env     <home>/.axon/.env            repo    <home>/.axon/repo exists
\*   git     <repo>/.git exists           content <repo> holds entries other
\*   ignore  <repo>/.gitignore                    than .git and .gitignore
\*   attrs   <repo>/.gitattributes
EmptyHome ==
  [axon |-> FALSE, yaml |-> "none", env |-> NoFile, repo |-> FALSE, git |-> FALSE,
   content |-> FALSE, ignore |-> NoFile, attrs |-> NoFile]

Homes ==
  {h \in [axon : BOOLEAN, yaml : YamlKinds, env : {NoFile, DotEnvTemplate, UserFile},
          repo : BOOLEAN, git : BOOLEAN, content : BOOLEAN,
          ignore : {NoFile, defaultGitignore, UserFile},
          attrs : {NoFile, defaultGitattributes, UserFile}] :
     /\ ~h.axon => h = EmptyHome
     /\ ~h.repo => ~h.git /\ ~h.content /\ ~h.ignore.exists /\ ~h.attrs.exists}

\* config.EnsureDotEnvTemplate: writes the template unless <axon>/.env exists.
EnsureDotEnvTemplate(h) ==
  IF h.env.exists THEN h ELSE [h EXCEPT !.env = DotEnvTemplate]

\* What can go wrong outside the program: git missing from PATH, a failing
\* MkdirAll or WriteFile, a failing `git init`.
InitFailures == {"none", "no-git", "mkdir", "write-config", "git-init", "write-ignore", "write-attrs"}

\* What `git clone` finds at the remote.
Remotes == {"unreachable", "empty", "content"}

\* setupHubLocal: MkdirAll(repoPath), and `git init` when <repo>/.git is missing.
setupHubLocal(h, fail) ==
  IF fail = "mkdir" /\ ~h.repo THEN [home |-> h, err |-> TRUE]
  ELSE IF ~h.git /\ fail = "git-init"
    THEN [home |-> [h EXCEPT !.repo = TRUE], err |-> TRUE]
  ELSE [home |-> [h EXCEPT !.repo = TRUE, !.git = TRUE], err |-> FALSE]

\* `git clone <url> <repo>`: fails on an unreachable remote and on an
\* existing non-empty directory.
Clone(h, remote) ==
  IF remote = "unreachable" \/ (h.repo /\ (h.git \/ h.content \/ h.ignore.exists \/ h.attrs.exists))
    THEN [home |-> h, err |-> TRUE]
    ELSE [home |-> [h EXCEPT !.repo = TRUE, !.git = TRUE, !.content = (remote = "content")],
          err |-> FALSE]

\* setupHubWithRemote: clone when <repo> does not exist; a clone with
\* content ends the setup, anything else falls through to setupHubLocal.
setupHubWithRemote(h, remote, fail) ==
  LET c == IF h.repo THEN [home |-> h, err |-> TRUE] ELSE Clone(h, remote)
  IN  IF ~c.err /\ c.home.content
        THEN [home |-> c.home, err |-> FALSE, cloned |-> TRUE]
        ELSE LET l == setupHubLocal(c.home, fail)
             IN  [home |-> l.home, err |-> l.err, cloned |-> FALSE]

\* Steps 6, 6b and 7 with the two files written whether or not they exist.
initFiles_Always(h, cloned, fail, skills, importOk) ==
  IF fail = "write-ignore" THEN [home |-> h, err |-> TRUE]
  ELSE IF fail = "write-attrs"
    THEN [home |-> [h EXCEPT !.ignore = defaultGitignore], err |-> TRUE]
  ELSE LET h2 == [h EXCEPT !.ignore = defaultGitignore, !.attrs = defaultGitattributes]
       IN  IF cloned THEN [home |-> h2, err |-> FALSE]
           ELSE [home |-> [h2 EXCEPT !.content = @ \/ skills], err |-> ~importOk]

\* Steps 6, 6b and 7 of runInit: the default .gitignore and .gitattributes
\* are written when missing, then the existing skills are imported unless
\* the hub came from a clone with content.
initFiles(h, cloned, fail, skills, importOk) ==
  IF ~h.ignore.exists /\ fail = "write-ignore" THEN [home |-> h, err |-> TRUE]
  ELSE LET h1 == IF h.ignore.exists THEN h ELSE [h EXCEPT !.ignore = defaultGitignore]
       IN  IF ~h1.attrs.exists /\ fail = "write-attrs" THEN [home |-> h1, err |-> TRUE]
           ELSE LET h2 == IF h1.attrs.exists THEN h1
                           ELSE [h1 EXCEPT !.attrs = defaultGitattributes]
                IN  IF cloned THEN [home |-> h2, err |-> FALSE]
                    ELSE [home |-> [h2 EXCEPT !.content = @ \/ skills], err |-> ~importOk]

\* Step 5 of runInit, on the loaded configuration.
initHub(h, arg, upstream, remote, fail) ==
  IF upstream
    THEN IF h.yaml = "no-upstream" THEN [home |-> h, err |-> TRUE, cloned |-> FALSE]
         ELSE LET c == Clone(h, remote) IN [home |-> c.home, err |-> c.err, cloned |-> TRUE]
  ELSE IF arg THEN setupHubWithRemote(h, remote, fail)
  ELSE LET l == setupHubLocal(h, fail) IN [home |-> l.home, err |-> l.err, cloned |-> FALSE]

\* runInit(cmd, args): the home it leaves and whether it returned an error.
runInit(h, arg, upstream, remote, fail, skills, importOk) ==
  IF fail = "no-git" THEN [home |-> h, err |-> TRUE]
  ELSE IF ~h.axon /\ fail = "mkdir" THEN [home |-> h, err |-> TRUE]
  ELSE
    LET h1 == [h EXCEPT !.axon = TRUE]
    IN  IF h1.yaml = "none" /\ fail = "write-config" THEN [home |-> h1, err |-> TRUE]
        ELSE
          LET h2 == IF h1.yaml = "none"
                      THEN [h1 EXCEPT !.yaml = IF upstream THEN "read-only" ELSE "read-write"]
                      ELSE h1
          IN  IF h2.yaml = "invalid" THEN [home |-> h2, err |-> TRUE]
              ELSE LET hubSetup == initHub(h2, arg, upstream, remote, fail)
                   IN  IF hubSetup.err THEN [home |-> hubSetup.home, err |-> TRUE]
                       ELSE initFiles(hubSetup.home, hubSetup.cloned, fail, skills, importOk)

NoInit == [ran |-> FALSE]

\* One `axon init`.
AxonInit(h, arg, upstream, remote, fail, skills, importOk) ==
  /\ ~ini.ran
  /\ LET r == runInit(h, arg, upstream, remote, fail, skills, importOk)
     IN  ini' = [ran |-> TRUE, before |-> h, arg |-> arg, upstream |-> upstream,
                 home |-> r.home, err |-> r.err, op |-> "init", n |-> 1, prevOk |-> FALSE]
  /\ UNCHANGED <<linkVars, importVars, syncVars, updateVars, indexVars, qry, bld, upd, lnk, imt, emb, san>>

\* A second `axon init`, on the home the first one left.
AxonInitAgain(arg, upstream, remote, fail, skills, importOk) ==
  /\ ini.ran
  /\ ini.n = 1
  /\ LET r == runInit(ini.home, arg, upstream, remote, fail, skills, importOk)
     IN  ini' = [ran |-> TRUE, before |-> ini.home, arg |-> arg, upstream |-> upstream,
                 home |-> r.home, err |-> r.err, op |-> "init", n |-> 2,
                 prevOk |-> (ini.op = "init" /\ ~ini.err)]
  /\ UNCHANGED <<linkVars, importVars, syncVars, updateVars, indexVars, qry, bld, upd, lnk, imt, emb, san>>

\* A call of config.EnsureDotEnvTemplate on the home as it is.
EnsureDotEnv ==
  /\ ini.ran
  /\ ini' = [ini EXCEPT !.before = ini.home, !.home = EnsureDotEnvTemplate(ini.home),
                        !.err = FALSE, !.op = "ensure", !.prevOk = FALSE]
  /\ UNCHANGED <<linkVars, importVars, syncVars, updateVars, indexVars, qry, bld, upd, lnk, imt, emb, san>>

(***************************************************************************)
(* Initial states and specifications                                       *)
(***************************************************************************)

IdleCli ==
  /\ qry = NoQuery
  /\ bld = NoBuildRun
  /\ upd = [u \in {"u1", "u2"} |-> [ran |-> FALSE]]
  /\ lnk = NoLinkAll
  /\ imt = NoTreeImport
  /\ emb = NoProvider
  /\ ini = NoInit
  /\ san = NoSanitize

IdleLink ==
  /\ parentExists = [t \in Targets |-> FALSE]
  /\ dest = [t \in Targets |-> Missing]
  /\ hubDirs = {}
  /\ backups = {}
  /\ now = 1
  /\ canSymlink = TRUE
  /\ result = NoOutcome
  /\ prev = NoOutcome

IdleImport ==
  /\ hub = [n \in HubNames |-> Absent]
  /\ imp = NoImport
  /\ again = NoRun

IdleSync ==
  /\ syncCfg = [mode |-> "", excludes |-> <<>>]
  /\ repo = [excludeFile |-> DefaultExcludeFile, gitDirs |-> {RootGit},
             atStart |-> {RootGit}, files |-> {}, index |-> {},
             hasRemote |-> FALSE,
             remoteEmpty |-> FALSE, dirty |-> FALSE]
  /\ syncPc = "done"
  /\ syncLog = <<>>
  /\ syncErr = FALSE

IdleUpdate ==
  /\ goos = "linux"
  /\ dirWritable = TRUE
  /\ sameDevice = TRUE
  /\ lockHolders = {}
  /\ disk = [q \in UpdatePaths |-> IF q = CurrentPath THEN Installed ELSE Nothing]
  /\ pc = [q \in Procs |-> "done"]
  /\ pre = [q \in Procs |-> Nothing]
  /\ ret = [q \in Procs |-> ""]
  /\ sums = [q \in Updaters |-> <<>>]
  /\ verified = [q \in Updaters |-> "none"]
  /\ unsafeSeen = [q \in Procs |-> FALSE]

IdleIndex ==
  /\ userDir = NoDir
  /\ bakDir = NoDir
  /\ tmpIdx = NoDir
  /\ buildPc = "done"
  /\ builtIdx = NoDir
  /\ initialIdx = NoDir
  /\ rdPc = "done"
  /\ rdM = NoIndex.Manifest
  /\ rdS = <<>>
  /\ rdOut = NoIndex

\* Backups that earlier runs may have left behind: an older one, one made in
\* the current second, and a directory whose name carries no timestamp.
SeedBackups ==
  {[base |-> t, suffix |-> FormatStamp(0), files |-> OldFiles] : t \in Targets}
  \cup {[base |-> <<"cursor", "skills">>, suffix |-> FormatStamp(1), files |-> OldFiles],
        [base |-> <<"cursor", "skills">>, suffix |-> <<1>>, files |-> OldFiles]}

DestStates ==
  {Missing, RegularFile, SymlinkTo(OtherPath), RealDir({}), RealDir(UserFiles)}

InitLink ==
  /\ parentExists \in [Targets -> BOOLEAN]
  /\ dest \in [Targets -> DestStates]
  /\ \A t \in Targets : ~parentExists[t] => dest[t] = Missing
  /\ hubDirs \in {{}, {Source(t) : t \in Targets}}
  /\ backups \in SUBSET SeedBackups
  /\ now = 1
  /\ canSymlink \in BOOLEAN
  /\ result = NoOutcome
  /\ prev = NoOutcome
  /\ IdleImport
  /\ IdleSync
  /\ IdleCli
  /\ IdleUpdate
  /\ IdleIndex

NextLink ==
  \/ \E t \in Targets : LinkTarget(t)
  \/ \E t \in Targets : UnlinkTarget(t, TRUE)
  \/ Tick

SpecLink == InitLink /\ [][NextLink]_vars

\* `axon link all` over every state of the destinations, with the clock
\* advancing between targets.
NextLinkAll ==
  \/ \E cfg \in TargetLists, ok \in BOOLEAN : LinkAllStart(cfg, ok)
  \/ LinkAllStep
  \/ LinkAllReport
  \/ Tick

SpecLinkAll == InitLink /\ [][NextLinkAll]_vars

\* Several backups of one target, with stamps older than, equal to and newer
\* than the current second, entries whose suffix is no timestamp (too
\* short, seconds out of range), and a backup of the other target.
StampedFile(sec) ==
  CASE sec = 0 -> "b0" [] sec = 1 -> "b1" [] sec = 2 -> "b2" [] OTHER -> "b3"

ManyBackups ==
  {[base |-> <<"cursor", "skills">>, suffix |-> FormatStamp(sec),
    files |-> {StampedFile(sec)}] :
     sec \in 0..MaxClock}
  \cup {[base |-> <<"cursor", "skills">>, suffix |-> <<1>>, files |-> OldFiles],
        [base |-> <<"cursor", "skills">>, suffix |-> DatePrefix \o <<9, 9>>, files |-> OldFiles],
        [base |-> <<"windsurf", "workflows">>, suffix |-> FormatStamp(0), files |-> OldFiles]}

\* Links and unlinks over a backups directory that earlier runs filled.
InitBackups ==
  /\ parentExists = [t \in Targets |-> TRUE]
  /\ dest \in [Targets -> {SymlinkTo(OtherPath), RealDir(UserFiles)}]
  /\ hubDirs = {Source(t) : t \in Targets}
  /\ backups \in {B \in SUBSET ManyBackups :
                    \A b \in ManyBackups \ B : ParseStamp(b.suffix) >= 0 /\ b.base = <<"cursor", "skills">>}
  /\ now = 1
  /\ canSymlink = TRUE
  /\ result = NoOutcome
  /\ prev = NoOutcome
  /\ IdleImport
  /\ IdleSync
  /\ IdleCli
  /\ IdleUpdate
  /\ IdleIndex

NextBackups ==
  \/ \E t \in Targets : LinkTarget(t)
  \/ \E t \in Targets, renameOk \in BOOLEAN : UnlinkTarget(t, renameOk)
  \/ Tick

SpecBackups == InitBackups /\ [][NextBackups]_vars

\* The importer starts from an empty hub directory (axon init creates it).
InitImport ==
  /\ IdleLink
  /\ IdleImport
  /\ IdleSync
  /\ IdleCli
  /\ IdleUpdate
  /\ IdleIndex

NextImport ==
  \E src \in SourceTrees, tool \in Tools, excludes \in ExcludeSets :
    ImportDir(src, tool, excludes)

SpecImport == InitImport /\ [][NextImport]_vars

\* Hubs holding any of the source names already.
SeedHubs ==
  {[n \in HubNames |-> IF n \in SrcNames THEN h[n] ELSE Absent] :
     h \in [SrcNames -> Contents \cup {Absent}]}

InitReimport ==
  /\ IdleLink
  /\ IdleSync
  /\ IdleCli
  /\ IdleUpdate
  /\ IdleIndex
  /\ hub \in SeedHubs
  /\ imp = NoImport
  /\ again = NoRun

NextReimport ==
  \/ \E src \in SourceTrees, tool \in Tools, excludes \in ExcludeSets :
       ImportOnce(src, tool, excludes)
  \/ ImportAgain

SpecReimport == InitReimport /\ [][NextReimport]_vars

\* One ImportDir of a source tree with directories into a hub.
InitImportTree ==
  /\ IdleLink
  /\ IdleImport
  /\ IdleSync
  /\ IdleCli
  /\ IdleUpdate
  /\ IdleIndex

NextImportTree ==
  /\ ~imt.ran
  /\ \E src \in SrcTrees, before \in TreeHubs, excludes \in TreeExcludes,
        failAt \in TreePaths \cup {NoFail}, failKind \in FailKinds :
       /\ failAt = NoFail => failKind = "nothing"
       /\ ImportTree(src, before, excludes, failAt, failKind)

SpecImportTree == InitImportTree /\ [][NextImportTree]_vars

\* One provider made by NewOpenAI, and its Embed calls.
InitProvider ==
  /\ IdleLink
  /\ IdleImport
  /\ IdleSync
  /\ IdleUpdate
  /\ IdleIndex
  /\ qry = NoQuery
  /\ bld = NoBuildRun
  /\ upd = [u \in {"u1", "u2"} |-> [ran |-> FALSE]]
  /\ lnk = NoLinkAll
  /\ imt = NoTreeImport
  /\ ini = NoInit
  /\ san = NoSanitize
  /\ \E model \in {"", "m1"}, apiKey \in {"", "k1"} : emb = NewOpenAI(model, apiKey)

NextProvider ==
  \E text \in {"", "t1"}, resp \in Responses : OpenAIEmbed(text, resp)

SpecProvider == InitProvider /\ [][NextProvider]_vars

\* One `axon init` on any home.
InitAxonInit ==
  /\ IdleLink
  /\ IdleImport
  /\ IdleSync
  /\ IdleCli
  /\ IdleUpdate
  /\ IdleIndex

NextAxonInit ==
  /\ ~ini.ran
  /\ \E h \in Homes, arg, upstream, skills, importOk \in BOOLEAN,
        remote \in Remotes, fail \in InitFailures :
       AxonInit(h, arg, upstream, remote, fail, skills, importOk)

SpecInit == InitAxonInit /\ [][NextAxonInit]_vars

\* One sanitizeArchivePath call on any entry name, on either platform.
NextSanitize ==
  /\ ~san.ran
  /\ \E name \in EntryNames, os \in {"linux", "windows"} : Sanitize(name, os)

SpecSanitize == InitAxonInit /\ [][NextSanitize]_vars

\* `axon init`, a second `axon init`, and calls of EnsureDotEnvTemplate.
NextReinit ==
  \/ NextAxonInit
  \/ \E arg, upstream, skills, importOk \in BOOLEAN, remote \in Remotes, fail \in InitFailures :
       AxonInitAgain(arg, upstream, remote, fail, skills, importOk)
  \/ EnsureDotEnv

SpecReinit == InitAxonInit /\ [][NextReinit]_vars

\* No sync is running; the repository is as axon init left it.
InitSync ==
  /\ IdleLink
  /\ IdleImport
  /\ IdleSync
  /\ IdleCli
  /\ IdleUpdate
  /\ IdleIndex

NextSync ==
  \/ \E mode \in SyncModes, excludes \in ExcludeLists, gitDirs \in GitDirSets,
        hasRemote \in BOOLEAN, remoteEmpty \in BOOLEAN, dirty \in BOOLEAN :
        SyncStart(mode, excludes, gitDirs, {}, hasRemote, remoteEmpty, dirty)
  \/ \E ok \in BOOLEAN : WriteGitExcludes(ok)
  \/ GitHasRemote
  \/ \E failing \in NestedGitDirs \cup {RootGit, NoFailure} : StripNestedGitDirs(failing)
  \/ \E ok \in BOOLEAN : GitAdd(ok)
  \/ \E outcome \in {"committed", "nothing to commit", "failed"} : GitCommit(outcome)
  \/ GitRemoteIsEmpty
  \/ \E ok \in BOOLEAN : GitPushInitial(ok)
  \/ \E ok \in BOOLEAN : GitPullRebase(ok, {})
  \/ \E ok \in BOOLEAN : GitPush(ok)
  \/ \E ok \in BOOLEAN : GitIsDirty(ok)
  \/ \E ok \in BOOLEAN : GitPullFF(ok, {})

SpecSync == InitSync /\ [][NextSync]_vars

\* What axon.yaml may hold as sync_mode: Load takes the string as it is,
\* so besides the two modes and the omitted key there are misspelled and
\* unknown values.
ConfiguredModes == SyncModes \cup {"Read-Only", "readonly", "read-only ", "mirror"}

\* Syncs under every configured sync_mode.
NextDispatch ==
  \/ \E mode \in ConfiguredModes, hasRemote \in BOOLEAN, remoteEmpty \in BOOLEAN, dirty \in BOOLEAN :
        SyncStart(mode, <<>>, {RootGit}, {}, hasRemote, remoteEmpty, dirty)
  \/ \E ok \in BOOLEAN : WriteGitExcludes(ok)
  \/ GitHasRemote
  \/ StripNestedGitDirs(NoFailure)
  \/ \E ok \in BOOLEAN : GitAdd(ok)
  \/ \E outcome \in {"committed", "nothing to commit", "failed"} : GitCommit(outcome)
  \/ GitRemoteIsEmpty
  \/ \E ok \in BOOLEAN : GitPushInitial(ok)
  \/ \E ok \in BOOLEAN : GitPullRebase(ok, {})
  \/ \E ok \in BOOLEAN : GitPush(ok)
  \/ \E ok \in BOOLEAN : GitIsDirty(ok)
  \/ \E ok \in BOOLEAN : GitPullFF(ok, {})

SpecDispatch == InitSync /\ [][NextDispatch]_vars

\* Read-write syncs of a hub whose working tree and exclude list change
\* between syncs and whose upstream may carry files of its own.
NextExclusion ==
  \/ \E mode \in SyncModes \ {"read-only"}, excludes \in ExcludeLists,
        files \in SUBSET SyncFiles, hasRemote \in BOOLEAN, remoteEmpty \in BOOLEAN :
        SyncStart(mode, excludes, {RootGit}, files, hasRemote, remoteEmpty, FALSE)
  \/ WriteGitExcludes(TRUE)
  \/ GitHasRemote
  \/ StripNestedGitDirs(NoFailure)
  \/ \E ok \in BOOLEAN : GitAdd(ok)
  \/ \E outcome \in {"committed", "nothing to commit", "failed"} : GitCommit(outcome)
  \/ GitRemoteIsEmpty
  \/ \E ok \in BOOLEAN : GitPushInitial(ok)
  \/ \E ok \in BOOLEAN, pulled \in SUBSET {JunkTmp} : GitPullRebase(ok, pulled)
  \/ \E ok \in BOOLEAN : GitPush(ok)

SpecExclusion == InitSync /\ [][NextExclusion]_vars

\* Two `axon update` processes are about to start; an earlier update may
\* have left a backup file, or something `os.Remove` cannot remove, at
\* <current>.bak.
InitUpdate ==
  /\ IdleLink
  /\ IdleImport
  /\ IdleSync
  /\ IdleCli
  /\ IdleIndex
  /\ goos \in {"linux", "windows"}
  /\ dirWritable \in BOOLEAN
  /\ sameDevice \in BOOLEAN
  /\ lockHolders = {}
  /\ \E stale \in {Nothing, Installed, StaleDir} :
       disk = [q \in UpdatePaths |->
               IF q = CurrentPath THEN Installed
               ELSE IF q = BackupPath THEN stale ELSE Nothing]
  /\ pc = [q \in Procs |-> IF q \in Updaters THEN "start" ELSE "done"]
  /\ pre = [q \in Procs |-> Nothing]
  /\ ret = [q \in Procs |-> ""]
  /\ sums = [q \in Updaters |-> <<>>]
  /\ verified = [q \in Updaters |-> "none"]
  /\ unsafeSeen = [q \in Procs |-> FALSE]

NextUpdate ==
  \/ \E u \in Updaters, timedOut \in BOOLEAN : AcquireUpdateLock(u, timedOut)
  \/ \E u \in Updaters, rel \in {NoRelease, NewRelease} : FetchRelease(u, NoFlags, rel)
  \/ \E u \in Updaters, ok \in BOOLEAN : MakeTempDir(u, ok)
  \/ \E u \in Updaters, ok \in BOOLEAN : Download(u, ok)
  \/ \E u \in Updaters, found, ok \in BOOLEAN, m \in Manifests : FetchChecksums(u, found, ok, m)
  \/ \E u \in Updaters : VerifyChecksum(u)
  \/ \E u \in Updaters, ok \in BOOLEAN, es \in Archives : ExtractBinary(u, ok, es)
  \/ \E u \in Updaters : StageNew(u)
  \/ \E u \in Updaters : SpawnWindowsSwapHelper(u)
  \/ \E u \in Updaters : RemoveTempDir(u)
  \/ \E p \in Procs : Unlock(p)
  \/ \E p \in Procs : Exit(p)
  \/ \E h \in Helpers : HelperLock(h)
  \/ \E h \in Helpers, timedOut \in BOOLEAN : HelperWait(h, timedOut)
  \/ \E p \in Procs : SwapRemoveStale(p)
  \/ \E p \in Procs : SwapBackup(p)
  \/ \E p \in Procs : SwapNew(p)
  \/ \E p \in Procs : Rollback(p)
  \/ \E p \in Procs : VerifyBinaryVersion(p)
  \/ \E p \in Procs : MoveAside(p)
  \/ \E p \in Procs : SwapCleanup(p)

SpecUpdate == InitUpdate /\ [][NextUpdate]_vars

\* An archive that holds the release binary, and one whose binary does not
\* report the release's version.
GoodArchive == <<Entry(<<"README">>, FALSE, Broken), Entry(<<Want>>, FALSE, Expected)>>
BrokenArchive == <<Entry(<<Want>>, FALSE, Broken)>>

\* `axon update` with any flags and any release (u1) beside a plain `axon
\* update` (u2), for a release without a checksum asset.
NextResolve ==
  \/ \E u \in Updaters, timedOut \in BOOLEAN : AcquireUpdateLock(u, timedOut)
  \/ \E f \in UpdateFlags, rel \in Releases : FetchRelease("u1", f, rel)
  \/ \E rel \in {NoRelease, NewRelease} : FetchRelease("u2", NoFlags, rel)
  \/ \E u \in Updaters, ok \in BOOLEAN : MakeTempDir(u, ok)
  \/ \E u \in Updaters, ok \in BOOLEAN : Download(u, ok)
  \/ \E u \in Updaters : FetchChecksums(u, FALSE, TRUE, <<>>)
  \/ \E u \in Updaters, ok \in BOOLEAN, es \in {GoodArchive, BrokenArchive} :
       ExtractBinary(u, ok, es)
  \/ \E u \in Updaters : StageNew(u)
  \/ \E u \in Updaters : SpawnWindowsSwapHelper(u)
  \/ \E u \in Updaters : RemoveTempDir(u)
  \/ \E p \in Procs : Unlock(p)
  \/ \E p \in Procs : Exit(p)
  \/ \E h \in Helpers : HelperLock(h)
  \/ \E h \in Helpers, timedOut \in BOOLEAN : HelperWait(h, timedOut)
  \/ \E p \in Procs : SwapRemoveStale(p)
  \/ \E p \in Procs : SwapBackup(p)
  \/ \E p \in Procs : SwapNew(p)
  \/ \E p \in Procs : Rollback(p)
  \/ \E p \in Procs : VerifyBinaryVersion(p)
  \/ \E p \in Procs : MoveAside(p)
  \/ \E p \in Procs : SwapCleanup(p)

SpecResolve == InitUpdate /\ [][NextResolve]_vars

\* One `axon search` command line is about to run.
InitSearch ==
  /\ IdleLink
  /\ IdleImport
  /\ IdleSync
  /\ IdleUpdate
  /\ IdleIndex
  /\ IdleCli

NextSearch == ~qry.ran /\ \E in \in SearchInputs : Search(in)

SpecSearch == InitSearch /\ [][NextSearch]_vars

\* The index directories an earlier build left, as written.
OldIndexes ==
  {Built(D, {}, dim, "old") : D \in SUBSET Docs \ {{}}, dim \in 1..MaxDim}

\* The same with one file damaged or replaced afterwards.
Damaged(x) ==
  { [x EXCEPT !.manifest = GarbageManifest],
    [x EXCEPT !.manifest.m.dim = 0],
    [x EXCEPT !.manifest.m.dim = @ + 1],
    [x EXCEPT !.skills = @ \o <<GarbageLine>>],
    [x EXCEPT !.skills = <<EmptyLine>> \o @],
    [x EXCEPT !.skills = Tail(@)],
    [x EXCEPT !.vectors = SubSeq(@, 1, Len(@) - 1)],
    [x EXCEPT !.vectors = @ \o <<0, 0, 0, 0>>] }

InitialDirs == {NoDir} \cup OldIndexes \cup UNION {Damaged(x) : x \in OldIndexes}

\* A reader and one `axon search --index` are about to run.
InitIndex ==
  /\ IdleLink
  /\ IdleImport
  /\ IdleSync
  /\ IdleCli
  /\ IdleUpdate
  /\ userDir \in InitialDirs
  /\ initialIdx = userDir
  /\ bakDir = NoDir
  /\ tmpIdx = NoDir
  /\ buildPc = "idle"
  /\ builtIdx = NoDir
  /\ rdPc = "idle"
  /\ rdM = NoIndex.Manifest
  /\ rdS = <<>>
  /\ rdOut = NoIndex

NextIndex ==
  \/ \E D \in SUBSET Docs, long \in SUBSET Docs, dim \in 0..MaxDim :
       long \subseteq D /\ BuildUserIndex(D, long, dim, {}, FALSE)
  \/ IndexRemoveBackup
  \/ IndexMoveOld
  \/ IndexMoveNew
  \/ IndexCleanup
  \/ IndexRemoveTmp
  \/ ReadManifest
  \/ ReadSkills
  \/ ReadVectors
  \/ NextLoad

SpecIndex == InitIndex /\ [][NextIndex]_vars

\* `axon search --index`, with or without --force, over an index that an
\* earlier build left, after some documents were edited.
InitIncremental ==
  /\ IdleLink
  /\ IdleImport
  /\ IdleSync
  /\ IdleCli
  /\ IdleUpdate
  /\ userDir \in InitialDirs
  /\ initialIdx = userDir
  /\ bakDir = NoDir
  /\ tmpIdx = NoDir
  /\ buildPc = "idle"
  /\ builtIdx = NoDir
  /\ rdPc = "done"
  /\ rdM = NoIndex.Manifest
  /\ rdS = <<>>
  /\ rdOut = NoIndex

NextIncremental ==
  \/ \E D \in SUBSET Docs, changed \in SUBSET Docs, dim \in 0..MaxDim, force \in BOOLEAN :
       changed \subseteq D /\ BuildUserIndex(D, {}, dim, changed, force)
  \/ IndexRemoveBackup
  \/ IndexMoveOld
  \/ IndexMoveNew
  \/ IndexCleanup
  \/ IndexRemoveTmp

SpecIncremental == InitIncremental /\ [][NextIncremental]_vars

\* The indexes an earlier build left with another embeddings model.
OtherModelIndexes ==
  {[x EXCEPT !.manifest.m.model_id = ModelID("m2")] : x \in OldIndexes}

\* One BuildUserIndex into a directory that may hold an earlier index.
InitBuildInto ==
  /\ IdleLink
  /\ IdleImport
  /\ IdleSync
  /\ IdleCli
  /\ IdleUpdate
  /\ userDir \in InitialDirs \cup OtherModelIndexes
  /\ initialIdx = userDir
  /\ bakDir = NoDir
  /\ tmpIdx = NoDir
  /\ buildPc = "idle"
  /\ builtIdx = NoDir
  /\ rdPc = "done"
  /\ rdM = NoIndex.Manifest
  /\ rdS = <<>>
  /\ rdOut = NoIndex

NextBuildInto ==
  /\ buildPc = "idle"
  /\ \E D \in SUBSET Docs, changed \in SUBSET Docs, dims \in [Docs -> 0..MaxDim],
        force \in BOOLEAN, model \in {"m1", "m2"} :
       changed \subseteq D /\ BuildInto(D, changed, dims, force, model)

SpecBuildInto == InitBuildInto /\ [][NextBuildInto]_vars

\* Two `axon update` processes call acquireUpdateLock at time 0, each with
\* its own --timeout, while the helper of an earlier update may hold the
\* lock; the holder releases it at any time or never.
InitLockWait ==
  /\ IdleLink
  /\ IdleImport
  /\ IdleSync
  /\ IdleIndex
  /\ qry = NoQuery
  /\ bld = NoBuildRun
  /\ lnk = NoLinkAll
  /\ imt = NoTreeImport
  /\ emb = NoProvider
  /\ ini = NoInit
  /\ san = NoSanitize
  /\ upd \in [Updaters -> [ran : {FALSE}, deadline : 0..(MaxClock - 1), wake : {0}, slept : {FALSE}]]
  /\ goos = "linux"
  /\ dirWritable = TRUE
  /\ sameDevice = TRUE
  /\ \E held \in BOOLEAN :
       /\ lockHolders = IF held THEN {"h1"} ELSE {}
       /\ pc = [q \in Procs |-> IF q \in Updaters THEN "try"
                                ELSE IF held /\ q = "h1" THEN "unlock" ELSE "done"]
  /\ disk = [q \in UpdatePaths |-> IF q = CurrentPath THEN Installed ELSE Nothing]
  /\ pre = [q \in Procs |-> Nothing]
  /\ ret = [q \in Procs |-> ""]
  /\ sums = [q \in Updaters |-> <<>>]
  /\ verified = [q \in Updaters |-> "none"]
  /\ unsafeSeen = [q \in Procs |-> FALSE]

\* The steps of the processes that wait for the lock.
WaiterStep(u) ==
  \/ \E err \in BOOLEAN : PollLock(u, err)
  \/ WakeUp(u)

NextLockWait ==
  \/ \E u \in Updaters : WaiterStep(u)
  \/ \E p \in Procs : Unlock(p)
  \/ \E p \in Procs : Exit(p)
  \/ Tick

\* Every process that waits is scheduled, and time passes.
SpecLockWait ==
  /\ InitLockWait
  /\ [][NextLockWait]_vars
  /\ \A u \in Updaters : WF_vars(WaiterStep(u))
  /\ WF_vars(Tick)

\* One extraction of any archive, on either platform.
InitExtract ==
  /\ IdleLink
  /\ IdleImport
  /\ IdleSync
  /\ IdleCli
  /\ IdleIndex
  /\ goos \in {"linux", "windows"}
  /\ dirWritable = TRUE
  /\ sameDevice = TRUE
  /\ lockHolders = {}
  /\ disk = [q \in UpdatePaths |-> IF q = CurrentPath THEN Installed ELSE Nothing]
  /\ pc = [q \in Procs |-> "done"]
  /\ pre = [q \in Procs |-> Nothing]
  /\ ret = [q \in Procs |-> ""]
  /\ sums = [q \in Updaters |-> <<>>]
  /\ verified = [q \in Updaters |-> "none"]
  /\ unsafeSeen = [q \in Procs |-> FALSE]

NextExtract ==
  /\ ~san.ran
  /\ \E suffix \in {"tar.gz", "zip", "exe"}, opened \in BOOLEAN, es \in Archives,
        outcome \in WriteOutcomes : ExtractArchive(suffix, opened, es, outcome)

SpecExtract == InitExtract /\ [][NextExtract]_vars

\* One `axon search --index` whose build or whose renames may fail.
NextSwapFailure ==
  \/ NextIncremental
  \/ IndexMoveOldFails
  \/ \E rollbackOk \in BOOLEAN : IndexMoveNewFails(rollbackOk)

SpecSwapFailure == InitIncremental /\ [][NextSwapFailure]_vars

\* `axon search --index` on a hub that has no index yet, and a reader.
InitRoundTrip ==
  /\ IdleLink
  /\ IdleImport
  /\ IdleSync
  /\ IdleCli
  /\ IdleUpdate
  /\ userDir = NoDir
  /\ initialIdx = NoDir
  /\ bakDir = NoDir
  /\ tmpIdx = NoDir
  /\ buildPc = "idle"
  /\ builtIdx = NoDir
  /\ rdPc = "idle"
  /\ rdM = NoIndex.Manifest
  /\ rdS = <<>>
  /\ rdOut = NoIndex

SpecRoundTrip == InitRoundTrip /\ [][NextIndex]_vars

LoadDirs == InitialDirs \cup HugeDimDirs

\* Load(dir) of a directory that nothing else touches.
InitLoad ==
  /\ IdleLink
  /\ IdleImport
  /\ IdleSync
  /\ IdleCli
  /\ IdleUpdate
  /\ userDir \in LoadDirs
  /\ initialIdx = userDir
  /\ bakDir = NoDir
  /\ tmpIdx = NoDir
  /\ buildPc = "done"
  /\ builtIdx = NoDir
  /\ rdPc = "idle"
  /\ rdM = NoIndex.Manifest
  /\ rdS = <<>>
  /\ rdOut = NoIndex

NextLoadOnly ==
  \/ ReadManifest
  \/ ReadSkills
  \/ ReadVectors
  \/ NextLoad

SpecLoad == InitLoad /\ [][NextLoadOnly]_vars

(***************************************************************************)
(* Link engine: properties                                                 *)
(***************************************************************************)

\* The step from the current state is a link / unlink of target t.
LinkStep(t) == result'.tick # result.tick /\ result'.op = "link" /\ result'.target = t
UnlinkStep(t) == result'.tick # result.tick /\ result'.op = "unlink" /\ result'.target = t

\* C1: unlink of a target whose destination exists and is not a symlink
\* reports not_symlink and leaves the destination and every backup as they
\* were; no unlink step deletes or changes any non-symlink destination.
UnlinkNeverDestroys ==
  [][\A t \in Targets :
       UnlinkStep(t) =>
         /\ dest[t].kind \in {"dir", "file"} =>
              /\ result'.state = "not_symlink"
              /\ dest' = dest
              /\ backups' = backups
         /\ \A u \in Targets :
              dest[u].kind \in {"dir", "file"} => dest'[u] = dest[u]]_vars

UnlinkRefusedRealDir ==
  /\ result.op = "unlink"
  /\ result.state = "not_symlink"
  /\ dest[result.target] = RealDir(UserFiles)
  /\ Candidates(result.target) # {}

\* The state linkTarget reports for each starting condition.
ExpectedLinkState(e, t) ==
  CASE e.kind = "missing" -> "linked"
    [] e.kind = "dir" /\ e.files = {} -> "linked"
    [] e.kind = "dir" /\ e.files # {} -> "backed_up"
    [] e.kind = "symlink" /\ e.link = HubPathOf(t) -> "already"
    [] e.kind = "symlink" /\ e.link # HubPathOf(t) -> "relinked"
    [] OTHER -> "error"

\* C3: with the parent directory present and no filesystem error (symlinks
\* can be created, the backup path is free), linkTarget reports linked for
\* a missing destination and for an empty directory, backed_up for a
\* non-empty directory, already for a symlink to the hub source, relinked
\* for any other symlink, and leaves the destination a symlink to
\* <repo>/<source>.
LinkFiveCases ==
  [][\A t \in Targets :
       (/\ LinkStep(t)
        /\ parentExists[t]
        /\ canSymlink
        /\ dest[t].kind # "file"
        /\ ~(dest[t].kind = "dir" /\ dest[t].files # {} /\ BackupName(t, now) \in BackupNames))
       => /\ result'.state = ExpectedLinkState(dest[t], t)
          /\ dest'[t] = SymlinkTo(<<"repo", Source(t)>>)]_vars

LinkedFromEachCase ==
  /\ result.op = "link"
  /\ prev.op = "link"
  /\ result.state = "relinked"
  /\ prev.state = "backed_up"
  /\ dest[result.target] = SymlinkTo(HubPathOf(result.target))
  /\ dest[prev.target] = SymlinkTo(HubPathOf(prev.target))

\* C4: a link of target T right after a link of T that returned linked,
\* relinked or backed_up returns already and leaves the destinations, the
\* hub source directories and the backups unchanged.
LinkFixedPoint ==
  [][\A t \in Targets :
       (/\ LinkStep(t)
        /\ result.op = "link"
        /\ result.target = t
        /\ result.state \in {"linked", "relinked", "backed_up"})
       => /\ result'.state = "already"
          /\ dest' = dest
          /\ hubDirs' = hubDirs
          /\ backups' = backups]_vars

LinkedTwice ==
  /\ result.op = "link"
  /\ result.state = "already"
  /\ prev.op = "link"
  /\ prev.target = result.target
  /\ prev.state = "backed_up"

\* C5: when link returns backed_up the destination was a real non-empty
\* directory; its files are, unchanged, in exactly one backup directory that
\* did not exist before, named <target>_<timestamp of now>; every earlier
\* backup is still there; the destination is a symlink to the hub source.
BackupKeepsFiles ==
  [][\A t \in Targets :
       (LinkStep(t) /\ result'.state = "backed_up")
       => /\ dest[t].kind = "dir" /\ dest[t].files # {}
          /\ backups \subseteq backups'
          /\ Cardinality(backups' \ backups) = 1
          /\ \A b \in backups' \ backups :
               /\ b.files = dest[t].files
               /\ b.base = t
               /\ ParseStamp(b.suffix) = now
               /\ [base |-> b.base, suffix |-> b.suffix] \notin BackupNames
          /\ dest'[t] = SymlinkTo(HubPathOf(t))]_vars

BackedUpBesideOlder ==
  /\ result.op = "link"
  /\ result.state = "backed_up"
  /\ Cardinality(Candidates(result.target)) >= 2
  /\ \E b \in backups : b.base = result.target /\ b.files = UserFiles

\* C6 as stated: after a link of a target whose destination was a real
\* non-empty directory and a following unlink of the same target, the
\* destination is the directory it was and the backup made by the link is gone.
LinkUnlinkRoundTrip ==
  (/\ result.op = "unlink"
   /\ prev.op = "link"
   /\ prev.target = result.target
   /\ prev.pre.kind = "dir"
   /\ prev.pre.files # {})
  => /\ dest[result.target] = prev.pre
     /\ prev.created \notin BackupNames

\* C6 amended: the same, for a link that returned backed_up.
LinkUnlinkRoundTripBackedUp ==
  (/\ result.op = "unlink"
   /\ prev.op = "link"
   /\ prev.target = result.target
   /\ prev.pre.kind = "dir"
   /\ prev.pre.files # {}
   /\ prev.state = "backed_up")
  => /\ result.state = "restored"
     /\ dest[result.target] = prev.pre
     /\ prev.created \notin BackupNames

RestoredBesideOlder ==
  /\ result.op = "unlink"
  /\ result.state = "restored"
  /\ prev.op = "link"
  /\ prev.target = result.target
  /\ prev.state = "backed_up"
  /\ Candidates(result.target) # {}
  /\ dest[result.target] = RealDir(UserFiles)

(***************************************************************************)
(* Importer: properties                                                    *)
(***************************************************************************)

\* C2: no ImportDir call changes the content of a file that was in the hub
\* before the call.
ImportNeverOverwrites ==
  [][\A n \in HubNames : hub[n] # Absent => hub'[n] = hub[n]]_vars

(***************************************************************************)
(* Sync: properties                                                        *)
(***************************************************************************)

Cmds(log) == {log[i].cmd : i \in 1..Len(log)}

\* C9: a read-only sync runs, after the exclude file is regenerated, only
\* git status and git pull --ff-only: never add, commit, push, pull --rebase
\* or the stripping of nested .git directories; a dirty tree gives a warning
\* and the pull is still attempted.
ReadOnlyNeverWrites ==
  syncCfg.mode = "read-only" =>
    /\ Cmds(syncLog) \subseteq {"exclude", "status", "warn", "pull --ff-only"}
    /\ \A i \in 1..Len(syncLog) :
         syncLog[i].cmd = "pull --ff-only" =>
           /\ syncLog[1] = Ran("exclude", TRUE)
           /\ repo.excludeFile = ExcludeFileFor(syncCfg.excludes)
    /\ (syncPc \in {"exclude", "status", "pullFF"} \/ syncPc = "done")
    /\ (syncPc = "done" /\ Len(syncLog) >= 2 /\ syncLog[2] = Ran("status", TRUE)) =>
         /\ syncLog[Len(syncLog)].cmd = "pull --ff-only"
         /\ repo.dirty => syncLog[3] = Ran("warn", TRUE)
         /\ syncErr = ~syncLog[Len(syncLog)].ok

ReadOnlyDirtyPulled ==
  /\ syncCfg.mode = "read-only"
  /\ syncPc = "done"
  /\ repo.dirty
  /\ repo.gitDirs # {RootGit}
  /\ syncLog = <<Ran("exclude", TRUE), Ran("status", TRUE), Ran("warn", TRUE),
                 Ran("pull --ff-only", TRUE)>>

\* The place of each step in the read-write pipeline.
Rank(cmd) ==
  CASE cmd = "exclude" -> 1
    [] cmd = "remote" -> 2
    [] cmd = "strip" -> 3
    [] cmd = "add" -> 4
    [] cmd = "commit" -> 5
    [] cmd = "ls-remote" -> 6
    [] cmd = "pull --rebase" -> 7
    [] cmd = "push" -> 8
    [] OTHER -> 0

\* C10: a read-write sync runs its steps in the order exclude file, strip,
\* git add, git commit, git pull --rebase, git push, each after the previous
\* one returned successfully; the exclude file holds the configured patterns
\* before any git add; no push follows a failed pull --rebase, and the sync
\* then returns an error.
ReadWriteInOrder ==
  ~(syncCfg.mode = "read-only") =>
    /\ \A i, j \in 1..Len(syncLog) :
         i < j => /\ Rank(syncLog[i].cmd) < Rank(syncLog[j].cmd)
                  /\ Rank(syncLog[i].cmd) > 0
                  /\ syncLog[i].ok
    /\ \A j \in 1..Len(syncLog) :
         syncLog[j].cmd \in {"strip", "add", "commit", "pull --rebase", "push"} =>
           /\ \A c \in {"exclude", "strip", "add", "commit"} :
                Rank(c) < Rank(syncLog[j].cmd) => \E i \in 1..(j - 1) : syncLog[i] = Ran(c, TRUE)
           /\ repo.excludeFile = ExcludeFileFor(syncCfg.excludes)
    /\ \A i \in 1..Len(syncLog) :
         syncLog[i] = Ran("pull --rebase", FALSE) =>
           /\ i = Len(syncLog)
           /\ syncPc = "done"
           /\ syncErr

ReadWritePulledAndPushed ==
  /\ syncCfg.mode = "read-write"
  /\ syncPc = "done"
  /\ ~syncErr
  /\ Cmds(syncLog) = {"exclude", "remote", "strip", "add", "commit", "ls-remote",
                      "pull --rebase", "push"}

\* The strip step of the sync under way has run to its end.
PastStrip == \E i \in 1..Len(syncLog) : syncLog[i] = Ran("strip", TRUE)

\* C16: once a read-write sync is past its strip step, the only directory
\* named .git below the hub root is the hub's own, which is still there.
NoNestedGitAfterStrip ==
  /\ RootGit \in repo.gitDirs
  /\ (~IsReadOnly(syncCfg.mode) /\ PastStrip) => repo.gitDirs = {RootGit}

\* A read-write sync has run to its end on a hub that held every nested
\* .git directory of the tree, at three depths, one inside another.
StrippedDeepRepos ==
  /\ syncPc = "done"
  /\ ~syncErr
  /\ ~IsReadOnly(syncCfg.mode)
  /\ PastStrip
  /\ syncLog[1] = Ran("exclude", TRUE)
  /\ repo.gitDirs = {RootGit}
  /\ repo.atStart = {RootGit} \cup NestedGitDirs

\* filepath.Match-style reading of "basename or relative path matches P".
MatchesPattern(f, excludes) == \E i \in 1..Len(excludes) : Glob(excludes[i], f)

\* C17: after a read-write sync, no file of the working tree that matches a
\* configured exclude pattern has an entry in the git index.
ExcludedNeverIndexed ==
  (syncPc = "done" /\ ~syncErr /\ syncLog # <<>> /\ ~IsReadOnly(syncCfg.mode)) =>
     \A f \in repo.files : MatchesPattern(f, syncCfg.excludes) => f \notin repo.index

(***************************************************************************)
(* Self-update: properties                                                 *)
(***************************************************************************)

ReadSteps == {"checksum", "compare", "verify"}

\* C8: at most one process holds the update lock, and every step of an
\* updater or of a swap helper that changes the installed binary, its
\* backup, the staged binary or the temp area, or that reads them for the
\* checksum or the version check, is taken by a process holding the lock.
LockProtectsUpdate ==
  [][/\ Cardinality(lockHolders') <= 1
     /\ \A p \in Procs :
          (pc'[p] # pc[p] /\ (disk' # disk \/ pc[p] \in ReadSteps)) => p \in lockHolders]_vars

\* A swap helper is verifying the binary it moved into place, holding the
\* lock, while the other updater is still polling for it.
HelperSwapsWhileOtherWaits ==
  \E h \in Helpers, u \in Updaters :
    /\ pc[h] = "verify"
    /\ lockHolders = {h}
    /\ u # ParentOf(h)
    /\ pc[u] = "start"

\* The manifest has a line for the asset whose hash is the file's SHA-256,
\* letter case ignored.
HasMatchingEntry(m) ==
  \E i \in 1..Len(m) :
    /\ Len(m[i]) >= 2
    /\ TrimStar(m[i][Len(m[i])]) = AssetName
    /\ Len(m[i][1]) = Len(FileSHA256Hex)
    /\ \A k \in 1..Len(FileSHA256Hex) : ToLowerChar(m[i][1][k]) = FileSHA256Hex[k]

\* C11: when the release has a checksum manifest, the update goes on to
\* extraction only if the manifest has an entry for the asset whose hash
\* equals the file's SHA-256 ignoring case; otherwise (mismatch, no entry,
\* manifest not fetched) it aborts with nothing changed on disk; only a
\* release without a manifest goes on unverified, with the warning recorded.
ChecksumGate ==
  [][\A u \in Updaters :
       /\ (pc[u] = "compare" /\ pc'[u] # pc[u]) =>
            /\ pc'[u] = "extract" => (HasMatchingEntry(sums[u]) /\ verified'[u] = "verified")
            /\ ~HasMatchingEntry(sums[u]) => (pc'[u] = Deferred[1] /\ disk' = disk)
       /\ (pc[u] = "checksum" /\ pc'[u] = "extract") => verified'[u] = "unverified"
       /\ (pc[u] = "checksum" /\ pc'[u] # pc[u] /\ verified'[u] # "unverified") =>
            (pc'[u] \in {"compare", Deferred[1]} /\ disk' = disk)
       /\ pc'[u] = "extract" => verified'[u] # "none"]_vars

\* An update went on to extraction after its archive matched the manifest.
ExtractsAfterChecksumVerified ==
  \E u \in Updaters : pc[u] = "extract" /\ verified[u] = "verified" /\ u \in lockHolders

\* C12 as stated: when an entry of the archive fails path sanitization, the
\* extraction ends in an error and writes no binary, whatever else the
\* archive holds.
UnsafeArchiveRejected ==
  [][\A u \in Updaters :
       (pc[u] = "extract" /\ pc'[u] # pc[u] /\ unsafeSeen'[u])
       => (pc'[u] = Deferred[1] /\ disk'[TmpNewPath(u)] = Nothing)]_vars

\* The relative paths present in the hub.
Present(h) == {n \in HubNames : h[n] # Absent}

\* C14 as stated: for every S and H, the second of two successive
\* ImportDir(S, H) leaves the hub files the first left, reports Skipped
\* equal to the first run's Imported, and reports no conflicts.
ImportTwiceIsOnce ==
  [][(again.n = 1 /\ again'.n = 2) =>
       /\ Present(hub') = Present(hub)
       /\ imp'.res.skipped = again.first.imported
       /\ imp'.res.conflicts = <<>>]_vars

\* None of the files of S that the excludes let through is in H.
NoneInHub(r) ==
  \A n \in SrcNames :
    (r.src[n] # Absent /\ ~MatchesExclude(n, r.excludes)) => r.before[n] = Absent

\* C14 amended: the same, for a hub that held none of the imported files
\* before the first run; the second run then changes nothing at all.
ImportTwiceIsOnceFresh ==
  [][(again.n = 1 /\ again'.n = 2 /\ NoneInHub(again)) =>
       /\ hub' = hub
       /\ imp'.res.skipped = again.first.imported
       /\ imp'.res.imported = 0
       /\ imp'.res.conflicts = <<>>]_vars

\* A tree with a file and a conflict-named file was imported twice into a
\* hub that held other files only; the second run skipped both.
ReimportedSkippingAll ==
  /\ again.n = 2
  /\ NoneInHub(again)
  /\ Present(again.before) # {}
  /\ again.src[NameA] # Absent
  /\ again.src[NameAC] # Absent
  /\ again.first.imported = 2
  /\ imp.res.skipped = 2

\* The ConflictPairs recorded for the file n.
PairsFor(res, n) ==
  {i \in 1..Len(res.conflicts) : res.conflicts[i].original = n}

\* C15: for every imported file whose relative path was in the hub, after
\* ImportDir: if the contents differ, the hub holds the original unchanged at
\* its path and the incoming content at the path with .conflict-<tool>
\* before the final extension, and exactly one ConflictPair names the file;
\* if the contents are equal, the file is as it was and is counted in Skipped.
ConflictSafeWrite ==
  [][(again.n = 0 /\ again'.n = 1) =>
       LET r == again' IN
       /\ \A n \in SrcNames :
            (r.src[n] # Absent /\ ~MatchesExclude(n, r.excludes) /\ hub[n] # Absent) =>
              /\ hub'[n] = hub[n]
              /\ IF SameMD5(r.src[n], hub[n])
                 THEN PairsFor(r.first, n) = {}
                 ELSE /\ hub'[ConflictPath(n, r.tool)] = r.src[n]
                      /\ \E i \in 1..Len(r.first.conflicts) :
                           /\ PairsFor(r.first, n) = {i}
                           /\ r.first.conflicts[i] =
                                [original |-> n,
                                 conflict |-> ConflictPath(n, r.tool),
                                 tool |-> r.tool]
       /\ r.first.skipped =
            Cardinality({n \in SrcNames :
                           /\ r.src[n] # Absent
                           /\ ~MatchesExclude(n, r.excludes)
                           /\ hub[n] # Absent
                           /\ SameMD5(r.src[n], hub[n])})]_vars

\* No update other than u's is or was under way.
OnlyUpdate(u) ==
  \A v \in Updaters \ {u} : pc[v] = "start" /\ pc[HelperOf(v)] = "done" /\ ret[HelperOf(v)] = ""

\* C18: on Windows, when the parent of a spawned helper has exited before the
\* helper timed out and no other update runs, the helper ends with the
\* staged binary installed, or with the old binary restored after a failed
\* verification, however the parent's exit and the helper's start interleave.
HandOffCompletes ==
  \A u \in Updaters :
    LET h == HelperOf(u) IN
    (/\ OnlyUpdate(u)
     /\ pc[u] = "done"
     /\ pc[h] = "done"
     /\ ret[h] \notin {"", "timed out"}
     /\ disk[BackupPath] # StaleDir) =>
       \/ ret[h] = "nil" /\ disk[CurrentPath] = Expected
       \/ ret[h] = "error" /\ disk[CurrentPath] = Installed /\ disk[StagedPath] = Nothing

(***************************************************************************)
(* Semantic index: properties                                              *)
(***************************************************************************)

\* C13 as stated, for the Loads that return an index: with an index written
\* by an earlier build in place, whatever point of the rebuild a Load of
\* <axon>/search overlaps, the index it returns is the complete index that
\* was there before or the complete index the rebuild wrote.
LoadSeesOldOrNew ==
  (initialIdx \in OldIndexes /\ rdPc = "done" /\ rdOut.ok)
    => rdOut \in {Load(initialIdx), Load(builtIdx)}

\* The non-empty lines of a skills file.
NonEmpty(lines) == SelectSeq(lines, LAMBDA l : l.kind # "empty")

\* n_skills x dim x 4 = bytes, in the integers.
SizeMatches(n, m, bytes) ==
  IF m.dimHi > 0 THEN n = 0 /\ bytes = 0 ELSE n * m.dim * 4 = bytes

\* len(Vectors) = len(Skills) x dim, in the integers.
RowsMatch(idx) ==
  IF idx.Manifest.dimHi > 0 THEN Len(idx.Skills) = 0 /\ Len(idx.Vectors) = 0
  ELSE Len(idx.Vectors) = Len(idx.Skills) * idx.Manifest.dim

\* The directory passes every check the loader contract names.
WellFormed(dir) ==
  /\ dir.exists
  /\ dir.manifest.kind = "json"
  /\ dir.manifest.m.dimHi > 0 \/ dir.manifest.m.dim > 0
  /\ \A i \in 1..Len(dir.skills) : dir.skills[i].kind \in {"json", "empty"}
  /\ SizeMatches(Len(NonEmpty(dir.skills)), dir.manifest.m, Len(dir.vectors))

\* C19: a Load of a directory returns an index only if the manifest parses
\* with dim > 0, every non-empty skills line parses and the vectors file is
\* n_skills x dim x 4 bytes long; the index returned has
\* len(Vectors) = len(Skills) x dim with dim > 0; otherwise Load returns an
\* error.
LoadValidates ==
  rdPc = "done" =>
    /\ rdOut.ok => /\ WellFormed(userDir)
                   /\ RowsMatch(rdOut)
                   /\ rdOut.Manifest.dimHi > 0 \/ rdOut.Manifest.dim > 0
    /\ ~WellFormed(userDir) => (~rdOut.ok /\ ~rdOut.panic)

\* C20: a Load of the directory the builder wrote, once it is in place,
\* succeeds and returns the entries the builder wrote, in their order, and
\* for the i-th entry the dim values the provider returned for its document
\* as the i-th row of the vectors.
IndexRoundTrip ==
  [][(userDir = builtIdx /\ builtIdx.exists /\ rdPc # "done" /\ rdPc' = "done") =>
       LET n == Len(builtIdx.skills)
           m == builtIdx.manifest.m IN
       /\ rdOut'.ok
       /\ rdOut'.Manifest = m
       /\ Len(rdOut'.Skills) = n
       /\ Len(rdOut'.Vectors) = n * m.dim
       /\ \A i \in 1..n :
            /\ rdOut'.Skills[i] = builtIdx.skills[i].entry
            /\ \A k \in 1..m.dim :
                 rdOut'.Vectors[(i - 1) * m.dim + k] =
                   FloatBits(builtIdx.skills[i].entry.id, m.gen, k)]_vars

(***************************************************************************)
(* Properties of the search query engine                                   *)
(***************************************************************************)

\* The command reached semanticSearch.
RanSemantic == qry.ran /\ qry.out.sem.steps # <<>>

SemanticFailed == qry.out.sem.panic \/ qry.out.sem.err # ""

\* C22: in default mode a failure of any semantic step never surfaces as an
\* error, keyword search is run instead; with --semantic the same failures
\* are returned as errors and keyword search is never run; with --keyword no
\* semantic step is attempted.
SearchModes ==
  (qry.ran /\ qry.in.cfgOk /\ qry.in.hasQuery) =>
    /\ (~qry.in.keyword /\ ~qry.in.semantic /\ RanSemantic /\ SemanticFailed) =>
          /\ qry.out.keyword
          /\ qry.out.err \in {"", "discover"}
    /\ qry.in.semantic =>
          /\ ~qry.out.keyword
          /\ RanSemantic
          /\ SemanticFailed => qry.out.err = qry.out.sem.err /\ qry.out.err # ""
    /\ qry.in.keyword => qry.out.sem.steps = <<>>

(***************************************************************************)
(* Properties of `axon search --index`                                     *)
(***************************************************************************)

\* The entries of the index <axon>/search held before the build whose id is
\* d and whose text_hash is the hash of d's text now.
Unchanged(d) ==
  LET old == Load(initialIdx) IN
    IF ~old.ok THEN {}
    ELSE {i \in 1..Len(old.Skills) :
            /\ old.Skills[i].id = d
            /\ old.Skills[i].text_hash = TextHash(d, bld.changed)}

\* The vector the build wrote for document d.
BuiltVector(d) ==
  LET new == Load(builtIdx) IN
    {VectorOf(new, i) : i \in {j \in 1..Len(new.Skills) : new.Skills[j].id = d}}

\* C23: `axon search --index` without --force re-embeds only the documents
\* whose text hash changed: for a document whose id and text_hash equal those
\* of an entry of the user index at <axon>/search the provider is not called
\* and the stored vector is kept; with --force every document is embedded
\* again (by a build that completes).
IncrementalIndexing ==
  bld.ran =>
    /\ (bld.force /\ builtIdx.exists) => bld.embedded = bld.docs
    /\ ~bld.force =>
          \A d \in bld.docs :
            Unchanged(d) # {} =>
              /\ d \notin bld.embedded
              /\ builtIdx.exists =>
                    BuiltVector(d) \subseteq
                      {VectorOf(Load(initialIdx), i) : i \in Unchanged(d)}

(***************************************************************************)
(* Properties of `axon update --check` and `--dry-run`                     *)
(***************************************************************************)

\* Updater u runs with --check or --dry-run and is past the release lookup.
CheckOnly(u) == upd[u].ran

\* The paths only updater u writes.
OwnPaths(u) == {TmpDir(u), ArchivePath(u), TmpNewPath(u)}

\* The URL printed for --dry-run is that of the first asset of the release
\* that carries the platform's archive name.
ReportsSelectedURL(r) ==
  r.kind = "dry-run" =>
    \E i \in 1..Len(r.rel.Assets) :
      /\ r.rel.Assets[i].Name = AssetName
      /\ r.rel.Assets[i].BrowserDownloadURL = r.url
      /\ \A j \in 1..(i - 1) : r.rel.Assets[j].Name # AssetName

\* C24: with --check or --dry-run the update stops after resolving the
\* release and the platform asset: it creates no temp directory, downloads
\* nothing, starts no helper, and none of its steps renames, replaces or
\* backs up the installed binary; with --dry-run the URL it reports is the
\* selected asset's.
CheckAndDryRunOnlyLook ==
  [][\A u \in Updaters :
       CheckOnly(u)' =>
         /\ \A q \in OwnPaths(u) : disk'[q] = Nothing
         /\ pc'[u] \in {"unlock", "exit", "done"}
         /\ pc'[HelperOf(u)] = "done"
         /\ pc'[u] # pc[u] => disk' = disk
         /\ ReportsSelectedURL(upd'[u])]_vars

\* A --dry-run ended with the asset's URL reported while the other update
\* installed the release.
DryRunBesideInstall ==
  /\ upd["u1"].ran
  /\ upd["u1"].kind = "dry-run"
  /\ upd["u1"].url = "url2"
  /\ pc["u1"] = "done"
  /\ disk[CurrentPath] = Expected

(***************************************************************************)
(* Properties of the backups directory                                     *)
(***************************************************************************)

\* b is the backup of target t with the greatest timestamp.
Newest(b, t) ==
  /\ b \in backups
  /\ b.base = t
  /\ ParseStamp(b.suffix) >= 0
  /\ \A c \in backups :
        (c.base = t /\ ParseStamp(c.suffix) >= 0) => ParseStamp(c.suffix) <= ParseStamp(b.suffix)

\* The step is an unlink of target t that found a symlink at the destination.
UnlinksSymlink(t) ==
  /\ result'.tick # result.tick
  /\ result'.op = "unlink"
  /\ result'.target = t
  /\ IsSymlink(dest[t])

\* C25: an unlink of a symlinked destination restores onto the destination
\* exactly one backup, the directory <target>_<TS> with the greatest parsed
\* 14-digit timestamp for that target, and leaves every other backup
\* directory in place; no step restores a backup a second time (a restored
\* backup has left the backups directory) or deletes one.
NewestBackupOnce ==
  [][/\ \A t \in Targets :
          (UnlinksSymlink(t) /\ result'.state = "restored") =>
            \E b \in backups :
              /\ Newest(b, t)
              /\ dest'[t] = RealDir(b.files)
              /\ backups' = backups \ {b}
              /\ \A o \in Targets \ {t} : dest'[o] = dest[o]
     /\ \A t \in Targets :
          (UnlinksSymlink(t) /\ result'.state # "error" /\ \E b \in backups : Newest(b, t)) =>
            result'.state = "restored"
     /\ (\A t \in Targets : ~(UnlinksSymlink(t) /\ result'.state = "restored")) =>
          backups \subseteq backups']_vars

\* The newest of three backups of a target was restored; the two older ones,
\* the entries without a timestamp and the other target's backup are still
\* there.
RestoredNewestOfThree ==
  /\ result.op = "unlink"
  /\ result.state = "restored"
  /\ result.target = <<"cursor", "skills">>
  /\ dest[<<"cursor", "skills">>] = RealDir({StampedFile(MaxClock)})
  /\ ManyBackups \ backups =
       {[base |-> <<"cursor", "skills">>, suffix |-> FormatStamp(MaxClock),
         files |-> {StampedFile(MaxClock)}]}

(***************************************************************************)
(* Properties of `axon link all`                                           *)
(***************************************************************************)

\* Name a comes before name b ("cursor-skills" < "windsurf-workflows").
NameLess(a, b) == a = <<"cursor", "skills">> /\ b = <<"windsurf", "workflows">>

Elems(q) == {q[i] : i \in 1..Len(q)}

\* C26: `link all` passes every configured target to linkTarget, in
\* ascending order of name, also after a target that ended in error; the
\* command returns an error if and only if a processed target ended in
\* state error, and a target reported as not installed never makes it fail.
\* (Of a run that found git and loaded the configuration.)
LinkAllContinues ==
  (lnk.pc = "done" /\ lnk.loaded) =>
    /\ Elems(lnk.seen) = Elems(lnk.cfg)
    /\ Len(lnk.seen) = Len(lnk.cfg)
    /\ \A i, j \in 1..Len(lnk.seen) : i < j => NameLess(lnk.seen[i], lnk.seen[j])
    /\ lnk.exit = "error" <=> \E i \in 1..Len(lnk.results) : lnk.results[i].state = "error"
    /\ \A i \in 1..Len(lnk.results) : BaseName(lnk.results[i].name) \notin lnk.notInstalled
    /\ (lnk.results = <<>> /\ lnk.notInstalled # {}) => lnk.exit = "nil"

\* The first target ended in error, the second was linked all the same, and
\* the command failed.
LinkedAfterError ==
  /\ lnk.pc = "done"
  /\ lnk.cfg = <<NameOrder[2], NameOrder[1]>>
  /\ Len(lnk.results) = 2
  /\ lnk.results[1] = [name |-> NameOrder[1], state |-> "error"]
  /\ lnk.results[2].state \in {"linked", "backed_up", "relinked"}
  /\ lnk.exit = "error"

(***************************************************************************)
(* Properties of the importer over a source tree                           *)
(***************************************************************************)

\* Some exclude pattern matches the base name or the relative path of q.
Matched(q) ==
  \E i \in 1..Len(imt.excludes) :
    LET pattern == imt.excludes[i] IN
      \/ Len(pattern) = 1 /\ GlobMatch(pattern[1], q[Len(q)])
      \/ Len(pattern) = Len(q) /\ \A k \in 1..Len(q) : GlobMatch(pattern[k], q[k])

\* The source file f is excluded: it, or a directory above it, is matched.
Excluded(f) == Matched(f) \/ \E d \in TreeDirs : Under(f, d) /\ Matched(d)

\* The files of the source tree.
SourceFiles == {f \in TreeFiles : imt.src[f] # Absent}

\* C27: a source entry is imported only if neither its base name nor its
\* relative path matches an exclude pattern, and the whole subtree of an
\* excluded directory is skipped: after ImportDir nothing was written to the
\* hub for an excluded file, neither at its path nor at its conflict path,
\* and excluded files are counted neither as imported nor as skipped.
ExcludeFilter ==
  imt.ran =>
    /\ \A f \in SourceFiles :
          Excluded(f) =>
            \A tool \in {"", "t1"} : imt.hub[HubKey(f, tool)] = imt.before[HubKey(f, tool)]
    /\ \A d \in TreeDirs : (Matched(d) \/ Excluded(d)) => d \notin imt.dirs
    /\ imt.res.imported + imt.res.skipped <= Cardinality({f \in SourceFiles : ~Excluded(f)})
    /\ ~imt.err =>
          imt.res.imported + imt.res.skipped = Cardinality({f \in SourceFiles : ~Excluded(f)})

\* An import in which a directory matched by its relative path was pruned
\* with the file below it, while the file beside it was imported.
PrunedSubtree ==
  /\ imt.ran
  /\ ~imt.err
  /\ imt.excludes = << <<Lit("docs"), Lit("tmp")>> >>
  /\ imt.src[<<"docs", "tmp", "x.md">>] = 1
  /\ imt.hub[HubKey(<<"docs", "tmp", "x.md">>, "")] = Absent
  /\ <<"docs", "tmp">> \notin imt.dirs
  /\ imt.src[<<"docs", "a.md">>] = 1
  /\ imt.before[HubKey(<<"docs", "a.md">>, "")] = Absent
  /\ imt.hub[HubKey(<<"docs", "a.md">>, "")] = 1
  /\ imt.res.imported >= 1

\* The place of an entry in the walk.
Pos(q) == CHOOSE i \in 1..Len(TreeOrder) : TreeOrder[i] = q

\* The source files that are not excluded and whose path the hub did not
\* hold before the import.
NewFiles == {f \in SourceFiles : ~Excluded(f) /\ imt.before[HubKey(f, "")] = Absent}

\* C28: when a file-system error occurs for one file during ImportDir, the
\* importer still writes all source files that are new to the hub before it
\* returns, and returns the partial Result with the counts accumulated
\* together with the error.
ImportKeepsGoing ==
  (imt.ran /\ imt.err) =>
    /\ \A f \in NewFiles \ {imt.failAt} : imt.hub[HubKey(f, "")] = imt.src[f]
    /\ imt.res.imported + imt.res.skipped
         = Cardinality({f \in SourceFiles \ {imt.failAt} : ~Excluded(f)})

\* C28, amended: a file-system error ends the walk at the failing entry.
\* The new files that precede it in the walk have been written, nothing is
\* written for the entries that follow it, and the partial Result, with the
\* counts accumulated up to the failing entry, is returned with the error.
ImportStopsAtError ==
  (imt.ran /\ imt.err) =>
    /\ \A f \in NewFiles :
          Pos(f) < Pos(imt.failAt) => imt.hub[HubKey(f, "")] = imt.src[f]
    /\ \A f \in TreeFiles :
          Pos(f) > Pos(imt.failAt) =>
            \A tool \in {"", "t1"} : imt.hub[HubKey(f, tool)] = imt.before[HubKey(f, tool)]
    /\ \A d \in imt.dirs : Pos(d) < Pos(imt.failAt)
    /\ imt.res.imported + imt.res.skipped
         = Cardinality({f \in SourceFiles : ~Excluded(f) /\ Pos(f) < Pos(imt.failAt)})

\* The copy of junk.tmp failed: docs/a.md, visited before it, is in the hub,
\* z.md, which follows it, is not, and one file is counted.
StoppedBetweenNewFiles ==
  /\ imt.ran
  /\ imt.err
  /\ imt.failAt = <<"junk.tmp">>
  /\ imt.src[<<"docs", "a.md">>] = 1
  /\ imt.before[HubKey(<<"docs", "a.md">>, "")] = Absent
  /\ imt.hub[HubKey(<<"docs", "a.md">>, "")] = 1
  /\ imt.src[<<"z.md">>] = 1
  /\ imt.before[HubKey(<<"z.md">>, "")] = Absent
  /\ imt.hub[HubKey(<<"z.md">>, "")] = Absent
  /\ imt.res.imported = 1

\* The call that fixed the provider's dimension: the first one that
\* returned a vector.
FirstSuccess(log) ==
  IF \E i \in 1..Len(log) : ~log[i].err
    THEN CHOOSE i \in 1..Len(log) : ~log[i].err /\ \A j \in 1..(i - 1) : log[j].err
    ELSE 0

\* C29: the first successful Embed response fixes the provider's dimension,
\* and every later Embed call on the same provider whose response vector has
\* a different length returns an error instead of a vector.
EmbedDimIsFixed ==
  emb.made =>
    LET first == FirstSuccess(emb.log)
    IN  first # 0 =>
          \A j \in (first + 1)..Len(emb.log) :
            (emb.log[j].asked /\ emb.log[j].resp \notin {NoVector, emb.log[first].out})
              => emb.log[j].err /\ emb.log[j].out = NoVector

\* An `axon init` without arguments on an empty home that returned no error.
ColdInitDone ==
  ini.ran /\ ini.before = EmptyHome /\ ~ini.arg /\ ~ini.upstream /\ ~ini.err

\* C30: after `axon init` with no arguments on an empty home there are the
\* axon directory, a hub directory with .git, the default .gitignore and
\* .gitattributes in the hub, and <axon>/.env holding exactly the three
\* embeddings keys with empty values, each line ended by a newline.
ColdInit ==
  ColdInitDone =>
    /\ ini.home.axon
    /\ ini.home.repo
    /\ ini.home.git
    /\ ini.home.ignore = defaultGitignore
    /\ ini.home.attrs = defaultGitattributes
    /\ ini.home.env = DotEnvTemplate

\* The four files written at init time, as they are in home h.
InitTimeFiles(h) == <<h.yaml, h.ignore, h.attrs, h.env>>

\* C31: axon.yaml, the hub's .gitignore and .gitattributes and the dotenv
\* template are written only when absent: an init or an
\* EnsureDotEnvTemplate leaves each of them that existed as it was, and a
\* second init, after one that succeeded, changes none of them.
CreatedOnlyWhenAbsent ==
  ini.ran =>
    /\ ini.before.yaml # "none" => ini.home.yaml = ini.before.yaml
    /\ ini.before.ignore.exists => ini.home.ignore = ini.before.ignore
    /\ ini.before.attrs.exists => ini.home.attrs = ini.before.attrs
    /\ ini.before.env.exists => ini.home.env = ini.before.env
    /\ (ini.op = "init" /\ ini.n = 2 /\ ini.prevOk)
         => InitTimeFiles(ini.home) = InitTimeFiles(ini.before)

\* A second init, after a successful one, on a home whose .gitignore and
\* .env were written by the user: both are as the user wrote them.
SecondInitKeptUserFiles ==
  /\ ini.ran
  /\ ini.op = "init"
  /\ ini.n = 2
  /\ ini.prevOk
  /\ ~ini.err
  /\ ini.home.ignore = UserFile
  /\ ini.home.env = UserFile
  /\ ini.home.attrs = defaultGitattributes

\* An unlink of t that follows a link of t which found an empty real
\* directory at the destination.
UnlinkAfterEmptyDirLink(t) ==
  /\ UnlinkStep(t)
  /\ result.op = "link"
  /\ result.target = t
  /\ result.pre = RealDir({})

\* C32: link of a target whose destination is an empty real directory
\* replaces it by a symlink to the hub source and creates no backup; after a
\* following unlink of the same target the destination does not exist and
\* no backup was created.
EmptyDirCycle ==
  [][\A t \in Targets :
       /\ (LinkStep(t) /\ dest[t] = RealDir({}))
            => dest'[t] = SymlinkTo(HubPathOf(t)) /\ backups' = backups
       /\ UnlinkAfterEmptyDirLink(t)
            => dest'[t] = Missing /\ BackupNames' \subseteq BackupNames]_vars

\* C32, amended: the same when <axon>/backups holds no backup of the
\* target.  A link that cannot create the symlink returns error with the
\* empty directory removed; in every case no backup is created and after
\* the unlink the destination does not exist.
EmptyDirCycleNoBackup ==
  [][\A t \in Targets :
       /\ (LinkStep(t) /\ dest[t] = RealDir({}) /\ Candidates(t) = {})
            => /\ backups' = backups
               /\ canSymlink => result'.state = "linked" /\ dest'[t] = SymlinkTo(HubPathOf(t))
               /\ ~canSymlink => result'.state = "error" /\ dest'[t] = Missing
       /\ (UnlinkAfterEmptyDirLink(t) /\ Candidates(t) = {})
            => /\ dest'[t] = Missing
               /\ backups' = backups
               /\ result'.state = (IF result.state = "linked" THEN "removed" ELSE "not_exist")]_vars

\* cursor/skills was an empty directory, was linked and then unlinked: it
\* does not exist, and the backup of the other target is still there.
EmptyDirLinkedThenRemoved ==
  /\ result.op = "unlink"
  /\ result.state = "removed"
  /\ prev.op = "link"
  /\ prev.state = "linked"
  /\ prev.target = result.target
  /\ prev.pre = RealDir({})
  /\ dest[result.target] = Missing
  /\ Candidates(result.target) = {}
  /\ backups # {}

\* A relative slash-separated path without "..": components other than "."
\* and "..", with one "/" between two of them.
IsCleanRelative(out) ==
  /\ out # <<>>
  /\ Len(out) % 2 = 1
  /\ \A i \in 1..Len(out) :
        IF i % 2 = 1 THEN out[i] \notin {"/", "\\", ".", ".."} ELSE out[i] = "/"

\* C33: sanitizeArchivePath returns "" or a relative slash-separated path
\* with no ".." component and no leading "/"; it returns "" for every name
\* that is empty, absolute or has a ".." component after the backslashes
\* are turned into slashes; and ../x, dir/../x, /abs/x, dir\x, ./x, x give
\* "", "", "", dir/x, x, x.
SanitizeContract ==
  san.ran =>
    LET n == ReplaceBackslashes(san.name)
    IN  /\ san.out = <<>> \/ IsCleanRelative(san.out)
        /\ (n = <<>> \/ Head(n) = "/" \/ \E i \in 1..Len(n) : n[i] = "..") => san.out = <<>>
        /\ san.name = <<"..", "/", "x">> => san.out = <<>>
        /\ san.name = <<"dir", "/", "..", "/", "x">> => san.out = <<>>
        /\ san.name = <<"/", "abs", "/", "x">> => san.out = <<>>
        /\ san.name = <<"dir", "\\", "x">> => san.out = <<"dir", "/", "x">>
        /\ san.name = <<".", "/", "x">> => san.out = <<"x">>
        /\ san.name = <<"x">> => san.out = <<"x">>

\* `axon search --index` has returned an error: the build wrote no index,
\* or a rename of AtomicSwap failed.
RebuildFailed ==
  bld.ran /\ buildPc = "done" /\ (~builtIdx.exists \/ bld.swapErr # "none")

\* C34: a failed index rebuild leaves the previous user index in place:
\* <axon>/search is untouched when the build fails before the swap, and
\* holds the complete old index again when the rename of the new directory
\* into place failed.
FailedRebuildKeepsIndex ==
  /\ RebuildFailed => userDir = initialIdx
  /\ (bld.ran /\ ~builtIdx.exists) => userDir = initialIdx

\* C34, amended: the same, except that the rename back is an attempt: when
\* it fails too, <axon>/search is missing and the complete old index is at
\* <axon>/search.bak.
FailedRebuildKeepsIndexOrBackup ==
  /\ (RebuildFailed /\ bld.rollback # "failed") => userDir = initialIdx
  /\ (RebuildFailed /\ bld.rollback = "failed")
       => userDir = NoDir /\ bakDir = initialIdx /\ initialIdx.exists
  /\ (bld.ran /\ ~builtIdx.exists) => userDir = initialIdx

\* The rename of the new index into place failed and the old index, which
\* had been moved to search.bak, is back at <axon>/search.
OldIndexRenamedBack ==
  /\ RebuildFailed
  /\ builtIdx.exists
  /\ bld.swapErr = "moveNew"
  /\ bld.rollback = "ok"
  /\ initialIdx.exists
  /\ userDir = initialIdx
  /\ bakDir = NoDir

\* The line of the earlier index whose entry and vector the build took for
\* document d, or 0 when it called the provider.
ReusedFrom(d) ==
  LET i == ReuseOf(bld.old, bld.force, d)
  IN  IF i # 0 /\ bld.old.Skills[i].text_hash = TextHash(d, bld.changed) THEN i ELSE 0

\* The length of the vector the build takes for document d.
TakenLen(d) == IF ReusedFrom(d) # 0 THEN bld.old.Manifest.dim ELSE bld.dims[d]

\* C35: every index BuildUserIndex writes has one dimension: when the vectors
\* of the run, embedded or reused, are not all of one length, the build
\* fails and writes no index; every row of a written index is the whole
\* vector of its document and has length Manifest.Dim.
SingleDimension ==
  bld.ran =>
    /\ (\E d, e \in bld.docs : TakenLen(d) # TakenLen(e))
         => ~builtIdx.exists /\ userDir = initialIdx
    /\ builtIdx.exists =>
         LET idx == Load(builtIdx)
             ds == SortedDocs(bld.docs)
         IN  /\ idx.ok
             /\ Len(idx.Skills) = Len(ds)
             /\ \A i \in 1..Len(ds) :
                   /\ TakenLen(ds[i]) = idx.Manifest.dim
                   /\ VectorOf(idx, i) =
                        IF ReusedFrom(ds[i]) # 0 THEN VectorOf(bld.old, ReusedFrom(ds[i]))
                        ELSE Embed(ds[i], "new", idx.Manifest.dim)

\* s1 was embedded with 2 components and s2 taken from an earlier index of
\* dimension 1: nothing was written.
FreshThenReusedRejected ==
  /\ bld.ran
  /\ bld.docs = {"s1", "s2"}
  /\ ReusedFrom("s1") = 0
  /\ bld.dims["s1"] = 2
  /\ ReusedFrom("s2") # 0
  /\ bld.old.Manifest.dim = 1
  /\ ~builtIdx.exists
  /\ userDir = initialIdx

HoldsAfterReturn(u) == pc[u] = "unlock"

\* C36: acquireUpdateLock terminates.  It returns success only to the one
\* process that holds the lock; a round that finds the lock free takes it
\* (unless TryLock itself fails), also after the deadline; it returns
\* `another update is in progress` only in a round that found the lock held
\* after the deadline; and every call returns.
LockAcquisitionTerminates ==
  /\ [](\A u \in Updaters :
          /\ HoldsAfterReturn(u) => lockHolders = {u}
          /\ ret[u] # "" => pc[u] = "done" /\ u \notin lockHolders)
  /\ [][\A u \in Updaters :
          pc[u] = "try" /\ pc'[u] # "try" =>
            /\ lockHolders = {} =>
                  \/ HoldsAfterReturn(u)' /\ lockHolders' = {u}
                  \/ ret'[u] = "cannot acquire update lock"
            /\ ret'[u] = "another update is in progress" =>
                  lockHolders # {} /\ now > upd[u].deadline
            /\ pc'[u] = "sleep" => lockHolders # {} /\ now <= upd[u].deadline]_vars
  /\ \A u \in Updaters : <>(pc[u] \notin {"try", "sleep"})

\* u2 found the lock held, slept, and took it once the holder had released
\* it; u1 gave up at its deadline.
WaiterTookReleasedLock ==
  /\ HoldsAfterReturn("u2")
  /\ upd["u2"].slept
  /\ lockHolders = {"u2"}
  /\ pc["h1"] \in {"exit", "done"}
  /\ ret["u1"] = "another update is in progress"

\* C37: linkTarget deletes no user data, whatever it returns: the files of
\* a non-empty real directory at the destination are afterwards at the
\* destination, unchanged, or in a backup directory of the target; a
\* regular file at the destination stays in place and the state is error;
\* no other destination and no earlier backup is touched.
LinkNeverDeletes ==
  [][\A t \in Targets :
       LinkStep(t) =>
         /\ dest[t].kind = "dir" /\ dest[t].files # {} =>
              \/ dest'[t] = dest[t]
              \/ \E b \in backups' : b.base = t /\ b.files = dest[t].files
         /\ dest[t].kind = "file" =>
              dest'[t] = dest[t] /\ result'.state = "error"
         /\ \A u \in Targets \ {t} : dest'[u] = dest[u]
         /\ backups \subseteq backups']_vars

\* The directory was moved to the backups, the symlink could not be
\* created: linkTarget returned error, nothing is at the destination and
\* the files are in the backup.
MovedThenSymlinkFailed ==
  /\ result.op = "link"
  /\ result.state = "error"
  /\ result.pre.kind = "dir"
  /\ result.pre.files # {}
  /\ dest[result.target] = Missing
  /\ \E b \in backups :
       /\ b.base = result.target
       /\ b.suffix = result.created.suffix
       /\ b.files = result.pre.files

\* The steps a sync has logged.
Steps(log) == {log[i] : i \in 1..Len(log)}

\* The steps of syncReadOnly and of syncReadWrite.
ReadOnlyCmds == {"status", "warn", "pull --ff-only"}
ReadWriteCmds == {"remote", "strip", "add", "commit", "ls-remote", "pull --rebase", "push"}

\* C39: sync runs the pull-only pipeline only when sync_mode is exactly
\* "read-only"; with any other value, an empty, unknown or misspelled one
\* included, it runs the read-write pipeline: strip, add, commit, and with
\* a remote the pull and the push.
SyncModeDispatch ==
  LET ro == syncCfg.mode = "read-only"
      finished == syncPc = "done" /\ ~syncErr /\ syncLog # <<>>
  IN  /\ Cmds(syncLog) \cap ReadOnlyCmds # {} => ro
      /\ Cmds(syncLog) \cap ReadWriteCmds # {} => ~ro
      /\ syncPc \in {"status", "pullFF"} => ro
      /\ syncPc \notin {"exclude", "status", "pullFF", "done"} => ~ro
      /\ finished /\ ro => Ran("pull --ff-only", TRUE) \in Steps(syncLog)
      /\ finished /\ ~ro =>
           /\ {"strip", "add", "commit"} \subseteq Cmds(syncLog)
           /\ repo.hasRemote =>
                /\ syncLog[Len(syncLog)] = Ran("push", TRUE)
                /\ syncLog[Len(syncLog) - 1] \in {Ran("pull --rebase", TRUE), Ran("ls-remote", TRUE)}
           /\ ~repo.hasRemote => syncLog[Len(syncLog)].cmd = "commit"

\* With sync_mode: Read-Only the sync committed, pulled and pushed.
MisspelledModePushed ==
  /\ syncCfg.mode = "Read-Only"
  /\ syncPc = "done"
  /\ ~syncErr
  /\ {"strip", "add", "commit", "pull --rebase", "push"} \subseteq Cmds(syncLog)

\* C40: whatever the archive holds, extraction writes at most one file, and
\* only at the destination path its caller gave it: every other file is as
\* it was, no file is created at a path made from an entry name, and a
\* call that returns no error has written the first wanted entry there.
ExtractWritesOnlyDest ==
  san.ran =>
    /\ Len(san.writes) <= 1
    /\ \A i \in 1..Len(san.writes) : san.writes[i].path = san.dest
    /\ {f \in san.after : f.path # san.dest} = san.before
    /\ {f.path : f \in san.after} \subseteq {f.path : f \in san.before} \cup {san.dest}
    /\ san.err = "" =>
         /\ Len(san.writes) = 1
         /\ san.writes[1].body = ExtractFrom(san.es, 1, Want)

\* The archive held an entry dir\<binary> and a second binary: one file
\* was written, at the destination path.
NestedEntryWrittenToDest ==
  /\ san.ran
  /\ Len(san.es) = 2
  /\ san.es[1].name = <<"dir", "\\", Want>>
  /\ san.es[2].name = <<Want>>
  /\ san.err = ""
  /\ san.after = san.before \cup {[path |-> san.dest, body |-> san.es[1].body]}
====
